---------------------------- MODULE Spec2Model ----------------------------
(***************************************************************************)
(* A model of rust-postgres (src/postgres/lib.rs): the inner connection,   *)
(* the prepared statement manager, the result cursor and the transaction   *)
(* controller, talking to a PostgreSQL v3 backend.                         *)
(*                                                                         *)
(* The client is synchronous: every public operation writes its frontend   *)
(* messages, flushes, and reads backend messages. The backend answers a    *)
(* flushed group at once, so an operation is one action: the backend's     *)
(* answer is drawn from the answers the protocol allows, appended to the   *)
(* bytes still unread on the stream, and the operation's reads are the     *)
(* code's reads over that stream.                                          *)
(***************************************************************************)
EXTENDS Integers, Sequences, FiniteSets, TLC

(* ------------------------------ bounds -------------------------------- *)
\* statement names handed out per connection (next_stmt_id stays below it)
MaxStmtId == 2
\* portal names handed out per statement
MaxPortalId == 2
\* rows a query produces
MaxRows == 2
\* largest row_limit a caller passes
MaxLimit == 1
\* statements alive at once, and cursors alive at once (in Spec)
MaxLive == 1
\* cursors alive at once (in SpecNames)
MaxLiveNames == 2
\* parameters of a statement
MaxParams == 1
\* depth of transaction scopes (top-level, nested, nested-within-nested)
MaxDepth == 3
\* savepoints the backend keeps in one transaction
MaxSavepoints == 2

\* SQLSTATE codes the backend reports, by index
ErrCodes == {1, 2}
\* the notice handlers a caller installs
MaxHandlers == 2
\* the backend messages on the stream when read_message is called by itself
MaxStream == 3
\* the columns of a described result
MaxCols == 3
ColumnNames == {"a", "b", "c"}
\* the values of a row's cells
Cells == {10, 11}
\* depth of transaction scopes that hold statements (in SpecScopes)
MaxScopes == 2
\* the parameters of a statement whose parameter types are told apart
MaxTypes == 2
\* the type oids a backend describes parameters by (int4, text)
Oids == {23, 25}

(* ------------------------- backend messages --------------------------- *)
\* message.rs BackendMessage: a tag and one payload
Msg(t, v) == [t |-> t, v |-> v]
ReadyForQuery == Msg("ReadyForQuery", 0)
ParseComplete == Msg("ParseComplete", 0)
BindComplete == Msg("BindComplete", 0)
CloseComplete == Msg("CloseComplete", 0)
NoData == Msg("NoData", 0)
PortalSuspended == Msg("PortalSuspended", 0)
EmptyQueryResponse == Msg("EmptyQueryResponse", 0)
ErrorResponse(c) == Msg("ErrorResponse", c)
NoticeResponse(c) == Msg("NoticeResponse", c)
ParameterStatus == Msg("ParameterStatus", 0)
ParameterDescription(types) == Msg("ParameterDescription", types)
RowDescription(descriptions) == Msg("RowDescription", descriptions)
DataRow(r) == Msg("DataRow", r)
CommandComplete(tag) == Msg("CommandComplete", tag)
AuthenticationOk == Msg("AuthenticationOk", 0)
AuthenticationKerberosV5 == Msg("AuthenticationKerberosV5", 0)
AuthenticationCleartextPassword == Msg("AuthenticationCleartextPassword", 0)
AuthenticationMD5Password(salt) == Msg("AuthenticationMD5Password", salt)
AuthenticationSCMCredential == Msg("AuthenticationSCMCredential", 0)
AuthenticationGSS == Msg("AuthenticationGSS", 0)
AuthenticationSSPI == Msg("AuthenticationSSPI", 0)
BackendKeyData == Msg("BackendKeyData", 0)
\* the stream has nothing more to read: the read never returns
EOF == Msg("EOF", 0)

(* ------------------------- frontend messages -------------------------- *)
\* a statement name statement_<k> is k; a portal name <stmt>_portal_<j> is
\* <<k, j>> and the unnamed portal "" is << >>
Parse(k) == [t |-> "Parse", name |-> k]
Describe(k) == [t |-> "Describe", variant |-> "S", name |-> k]
Sync == [t |-> "Sync"]
Bind(p, k) == [t |-> "Bind", portal |-> p, statement |-> k]
Execute(p, n) == [t |-> "Execute", portal |-> p, max_rows |-> n]
CloseS(k) == [t |-> "Close", variant |-> "S", name |-> k]
CloseP(p) == [t |-> "Close", variant |-> "P", portal |-> p]
Query(q) == [t |-> "Query", query |-> q]
StartupMessage(params) == [t |-> "StartupMessage", parameters |-> params]
PasswordMessage(pw) == [t |-> "PasswordMessage", password |-> pw]
Terminate == [t |-> "Terminate"]

\* the Sync and Query messages of a written group: each is answered by one
\* ReadyForQuery
RECURSIVE Syncs(_)
Syncs(ms) ==
    IF ms = << >> THEN 0
    ELSE (IF Head(ms).t \in {"Sync", "Query"} THEN 1 ELSE 0) + Syncs(Tail(ms))

\* the Terminate messages among the messages written
RECURSIVE Terminates(_)
Terminates(ms) ==
    IF ms = << >> THEN 0
    ELSE (IF Head(ms).t = "Terminate" THEN 1 ELSE 0) + Terminates(Tail(ms))

(* --------------------------- the stream ------------------------------- *)
\* What one operation's reads thread through: the unread backend messages,
\* the ReadyForQuery messages read, the code of the last ErrorResponse read
\* (0: none), the notices given to the notice handler, and the calls of
\* read_message.
IO(buf) == [buf |-> buf, rfq |-> 0, err |-> 0, ntc |-> << >>, reads |-> 0]

\* a read that returns the first message, whatever it is
read_message_unfiltered(io) ==
    IF io.buf = << >> THEN [msg |-> EOF, io |-> [io EXCEPT !.reads = @ + 1]]
    ELSE [msg |-> Head(io.buf),
          io |-> [io EXCEPT !.buf = Tail(io.buf), !.reads = @ + 1]]

\* InnerPostgresConnection::read_message
RECURSIVE read_message(_)
read_message(io) ==
    IF io.buf = << >> THEN [msg |-> EOF, io |-> [io EXCEPT !.reads = @ + 1]]
    ELSE LET m == Head(io.buf)
             rest == [io EXCEPT !.buf = Tail(io.buf)]
         IN  CASE m.t = "NoticeResponse" ->
                    read_message([rest EXCEPT !.ntc = Append(@, m.v)])
               [] m.t = "ParameterStatus" -> read_message(rest)
               [] OTHER ->
                    [msg |-> m,
                     io |-> [rest EXCEPT
                               !.reads = @ + 1,
                               !.rfq = @ + (IF m.t = "ReadyForQuery" THEN 1 ELSE 0),
                               !.err = IF m.t = "ErrorResponse" THEN m.v ELSE @]]

\* how a routine ends: "ok", "err" (a DbError is returned), "fail" (fail!()),
\* "blocked" (a read that never returns)
Out(st, io) == [st |-> st, io |-> io, code |-> 0, val |-> 0]
Stop(m, io) == Out(IF m.t = "EOF" THEN "blocked" ELSE "fail", io)

\* InnerPostgresConnection::wait_for_ready
wait_for_ready(io) ==
    LET r == read_message(io)
    IN  IF r.msg.t = "ReadyForQuery" THEN Out("ok", r.io) ELSE Stop(r.msg, r.io)

\* db_error without its wait_for_ready(): the error is returned at once
db_error_nowait(m, io) == [Out("err", io) EXCEPT !.code = m.v]

\* an ErrorResponse arm: wait_for_ready(), then Err(PostgresDbError::new(fields))
db_error(m, io) ==
    LET w == wait_for_ready(io)
    IN  IF w.st = "ok" THEN [Out("err", w.io) EXCEPT !.code = m.v] ELSE w

\* a read loop that ends at the first ReadyForQuery and skips the rest
\* (Drop for NormalPostgresStatement, Drop for PostgresResult)
RECURSIVE drain_until_ready(_)
drain_until_ready(io) ==
    LET r == read_message(io)
    IN  CASE r.msg.t = "ReadyForQuery" -> Out("ok", r.io)
          [] r.msg.t = "EOF" -> Out("blocked", r.io)
          [] OTHER -> drain_until_ready(r.io)

(* ----------------------- the backend's answers ------------------------ *)
\* A backend may send a NoticeResponse or a ParameterStatus before any
\* message of an answer: the answers of S, and each with a NoticeResponse
\* before its second message or a ParameterStatus before its first.
InsertAt(s, i, m) == SubSeq(s, 1, i - 1) \o <<m>> \o SubSeq(s, i, Len(s))
Noisy(S) ==
    S \cup { InsertAt(s, 2, NoticeResponse(1)) : s \in S }
      \cup { InsertAt(s, 1, ParameterStatus) : s \in S }

\* an answer without the NoticeResponse and ParameterStatus messages that
\* came with it
Synchronous(m) == m.t \notin {"NoticeResponse", "ParameterStatus"}
Answer(reply) == SelectSeq(reply, Synchronous)

\* the queries statements are prepared from, by their command
Queries == {"SELECT", "INSERT RETURNING", "UPDATE", "CREATE TABLE", ""}

\* the names of the columns of a query's result
Columns(q) ==
    CASE q = "SELECT" -> <<"a", "b">>
      [] q = "INSERT RETURNING" -> <<"a">>
      [] OTHER -> << >>

\* the oids of the parameters a backend infers for a query: any number of
\* int4 parameters, and for an UPDATE parameters of either type
ParamOids(q) ==
    IF q = "UPDATE" THEN UNION { [1..n -> Oids] : n \in 0..MaxTypes }
    ELSE { [i \in 1..n |-> 23] : n \in 0..MaxParams }

\* to Parse, Describe('S'), Sync
PrepareReplies(q) ==
    { <<ParseComplete, ParameterDescription(types),
        IF Columns(q) = << >> THEN NoData ELSE RowDescription(Columns(q)),
        ReadyForQuery>> : types \in ParamOids(q) }
    \cup { <<ErrorResponse(c), ReadyForQuery>> : c \in ErrCodes }

\* to Close, Sync
CloseReplies == { <<CloseComplete, ReadyForQuery>> }

\* to Query: the command runs, or is refused
QueryReplies ==
    { <<CommandComplete(<<"O", "K">>), ReadyForQuery>> }
    \cup { <<ErrorResponse(c), ReadyForQuery>> : c \in ErrCodes }

\* whether the backend ran the command it answered
Ran(reply) == \A i \in DOMAIN reply : reply[i].t # "ErrorResponse"

\* a number in decimal, one character a place
RECURSIVE Decimal(_)
Decimal(n) ==
    IF n < 10 THEN <<ToString(n)>> ELSE Decimal(n \div 10) \o <<ToString(n % 10)>>

\* the sizes of the portals of a query: only a SELECT or a RETURNING sends
\* rows
PortalSizes(q) == IF q \in {"SELECT", "INSERT RETURNING"} THEN 0..MaxRows ELSE {0}

\* how a backend completes the execution of a query whose portal had N
\* rows: CommandComplete with the command's tag ("SELECT N", "INSERT 0 N",
\* "UPDATE m" for any m rows updated, "CREATE TABLE"), or EmptyQueryResponse
\* for the empty query string
Completions(q, N) ==
    CASE q = "SELECT" ->
           { CommandComplete(<<"S", "E", "L", "E", "C", "T", " ">> \o Decimal(N)) }
      [] q = "INSERT RETURNING" ->
           { CommandComplete(<<"I", "N", "S", "E", "R", "T", " ", "0", " ">>
                             \o Decimal(N)) }
      [] q = "UPDATE" ->
           { CommandComplete(<<"U", "P", "D", "A", "T", "E", " ">> \o Decimal(m)) :
               m \in 0..MaxRows }
      [] q = "CREATE TABLE" ->
           { CommandComplete(<<"C", "R", "E", "A", "T", "E", " ",
                               "T", "A", "B", "L", "E">>) }
      [] OTHER -> {EmptyQueryResponse}

\* DataRow messages for the rows from+1 .. from+k of a portal, in order
Rows(from, k) == [i \in 1..k |-> DataRow(from + i)]

\* to Execute(portal, L), Sync on a portal of N rows of which pos were sent:
\* at most L rows (all of them when L = 0), then PortalSuspended when the
\* limit stopped the portal, CommandComplete (EmptyQueryResponse for an
\* empty query string) when it ran to its end; or an ErrorResponse after
\* some of the rows. With exactly L rows left the backend may report either.
ExecuteReplies(q, N, pos, L) ==
    LET left == N - pos
        k == IF L = 0 \/ left < L THEN left ELSE L
        ends == IF L > 0 /\ left > L THEN {PortalSuspended}
                ELSE IF L > 0 /\ left = L
                     THEN {PortalSuspended} \cup Completions(q, N)
                ELSE Completions(q, N)
    IN  { Rows(pos, k) \o <<e, ReadyForQuery>> : e \in ends }
        \cup { Rows(pos, j) \o <<ErrorResponse(c), ReadyForQuery>> :
                 j \in 0..k, c \in ErrCodes }

\* to Bind, Execute(portal, L), Sync for a query of N rows
BindReplies(q, N, L) ==
    { <<BindComplete>> \o e : e \in ExecuteReplies(q, N, 0, L) }
    \cup { <<ErrorResponse(c), ReadyForQuery>> : c \in ErrCodes }

\* the rows an answer carries
CountRows(reply) == Cardinality({ i \in DOMAIN reply : reply[i].t = "DataRow" })

(* ----------------------------- the state ------------------------------ *)
VARIABLES
    task,          \* "running", "failing" (unwinding after fail!()),
                   \* "aborted" (a failure while unwinding), "blocked"
    next_stmt_id,  \* InnerPostgresConnection.next_stmt_id
    inbuf,         \* backend messages sent and not yet read
    stmts,         \* the NormalPostgresStatement values created, in order
    cursors,       \* the PostgresResult values created, in order
    txs,           \* the open PostgresTransaction scopes, innermost last
    svpts,         \* the backend's savepoints, most recent last
    op,            \* the last operation: what it wrote, read and returned
    url,           \* the URL try_connect was given
    net,           \* what the resolver and the network do for its host
    terminated,    \* the Terminate messages written on the connection
    notice_handler,\* the connection's current notice handler
    cell,          \* the Cell of the PostgresConnection: "full" (it holds the
                   \* InnerPostgresConnection), "empty" (taken), "misused" (a
                   \* take() of the empty cell or a put_back() into the full
                   \* one was attempted), "none" (there is no connection)
    teardown       \* the Drop of a statement or of a cursor taken step by
                   \* step: stream is "up" or "broken" (every write and read
                   \* fails with an I/O error), st is "idle", "reading" (the
                   \* loop of the Drop) or "failed", of is the value being
                   \* dropped, pending is what the backend has still to send

vars ==
    <<task, next_stmt_id, inbuf, stmts, cursors, txs, svpts, op, url, net,
      terminated, notice_handler, cell, teardown>>

\* no Drop is running, on a stream that works
NoTeardown == [stream |-> "up", st |-> "idle", of |-> << >>, pending |-> << >>]

\* Cell::take and Cell::put_back
take(c) == IF c = "full" THEN "empty" ELSE "misused"
put_back(c) == IF c = "empty" THEN "full" ELSE "misused"

\* with_mut_ref that puts the value back only when the closure returns
with_mut_ref_no_finally(c, st) ==
    IF st \in {"ok", "err"} THEN put_back(take(c)) ELSE take(c)

\* Cell::with_mut_ref around a closure that ended as st: take(), the
\* closure, and put_back() when the closure returns or fails; a closure that
\* is blocked holds the value
with_mut_ref(c, st) == IF st = "blocked" THEN take(c) ELSE put_back(take(c))

\* n calls of with_mut_ref one after the other, the last of them ended as st
RECURSIVE accesses(_, _, _)
accesses(c, n, st) ==
    IF n = 0 THEN c
    ELSE IF n = 1 THEN with_mut_ref(c, st)
    ELSE accesses(with_mut_ref(c, "ok"), n - 1, st)

\* the calls of PostgresConnection::write_messages, ::read_message and
\* ::wait_for_ready of an exchange that wrote its messages in groups ended
\* by Sync and read as r did
exchange(c, wrote, r) == accesses(c, Syncs(wrote) + r.io.reads, r.st)

\* the record of an operation
\* the notices ntc given, in order, to the handler h
Handled(h, ntc) == [i \in DOMAIN ntc |-> [handler |-> h, notice |-> ntc[i]]]

Op(name, arg, wrote, r, res) ==
    [name |-> name, arg |-> arg, again |-> FALSE, idle |-> inbuf = << >>, wrote |-> wrote,
     rfq |-> r.io.rfq, err |-> r.io.err,
     res |-> res, code |-> r.code, ntc |-> Handled(notice_handler, r.io.ntc)]

\* the task after a routine that ended as st; wrap: the caller turns a
\* returned error into a failure (prepare, update, query, lazy_query)
TaskAfter(st, wrap) ==
    CASE st = "ok" -> task
      [] st = "err" -> IF wrap THEN "failing" ELSE task
      [] st = "blocked" -> "blocked"
      [] OTHER -> IF task = "failing" THEN "aborted" ELSE "failing"

\* the task after a try_ operation, called itself or through its wrapper
Tasks(st) == { TaskAfter(st, wrap) : wrap \in BOOLEAN }

\* the notice handlers: the one the connection starts with, and the
\* caller's
DefaultNoticeHandler == 0
Handlers == 0..MaxHandlers

\* the stream an operation reads, for each of the backend's answers
Answered(replies) == { IO(inbuf \o reply) : reply \in replies }

Live(seq) == { i \in DOMAIN seq : seq[i].live }

\* a dropped statement or cursor: its name stays, its fields are gone
DroppedStmt(st) ==
    [st EXCEPT !.live = FALSE, !.nparams = 0, !.next_portal_id = 0, !.query = "",
               !.result_desc = << >>, !.param_types = << >>]
DroppedCursor(cur) ==
    [cur EXCEPT !.live = FALSE, !.data = << >>, !.got = << >>, !.row_limit = 0,
                !.more_rows = FALSE, !.srvN = 0, !.srvPos = 0]
Depth == Len(txs)

\* a URL: whether it parses, its user and password (<< >>: none), its port
\* (0: none), its path and its query parameters
Urls ==
    [valid : BOOLEAN, user : {<< >>, <<"alice">>}, pass : {<< >>, <<"secret">>},
     port : {0, 5433}, path : {<< >>, <<"db">>},
     args : {<< >>, << <<"application_name", "app">> >>,
             << <<"database", "other">> >>}]

\* a host: whether it resolves, and for each address it resolves to, in
\* order, whether a connection to it succeeds
Nets ==
    [resolves : BOOLEAN,
     addrs : {<< >>, <<TRUE>>, <<FALSE>>, <<FALSE, TRUE>>, <<FALSE, FALSE>>,
              <<TRUE, FALSE>>, <<TRUE, TRUE>>}]

\* the connection right after PostgresConnection::try_connect returned it
Connected ==
    /\ task = "running"
    /\ next_stmt_id = 0
    /\ inbuf = << >>
    /\ stmts = << >>
    /\ cursors = << >>
    /\ txs = << >>
    /\ svpts = << >>
    /\ terminated = 0
    /\ notice_handler = DefaultNoticeHandler

\* the connection exists: try_connect returned it and it was not dropped
Open ==
    /\ terminated = 0
    /\ op.name # "start"
    /\ op.name = "try_connect" => op.res = "ok"

Init ==
    /\ Connected
    /\ cell = "full"
    /\ teardown = NoTeardown
    /\ op = [name |-> "try_connect", arg |-> 0, again |-> FALSE, idle |-> TRUE, wrote |-> << >>, rfq |-> 0,
             err |-> 0, res |-> "ok", code |-> 0, ntc |-> << >>]
    /\ url = [valid |-> TRUE, user |-> <<"alice">>, pass |-> << >>, port |-> 0,
              path |-> << >>, args |-> << >>]
    /\ net = [resolves |-> TRUE, addrs |-> <<TRUE>>]

(* --------------------------- preparation ------------------------------ *)
\* a vector in reverse order (move_rev_iter().collect(), reverse())
Reverse(v) == [i \in 1..Len(v) |-> v[Len(v) + 1 - i]]

\* PostgresType::from_oid: the type of an oid
from_oid(oid) == <<"PostgresType", oid>>

\* types.iter().map(|ty| { PostgresType::from_oid(*ty) }).collect()
param_types(types) == [i \in 1..Len(types) |-> from_oid(types[i])]

\* the result description without res.reverse()
result_desc_unreversed(descriptions) == Reverse(descriptions)

\* descriptions.move_rev_iter().map(..).collect(), then res.reverse()
result_desc(descriptions) == Reverse(Reverse(descriptions))

\* InnerPostgresConnection::try_prepare: the reads after Parse, Describe, Sync
inner_try_prepare(io) ==
    LET r1 == read_message(io)
    IN  CASE r1.msg.t = "ErrorResponse" -> db_error(r1.msg, r1.io)
          [] r1.msg.t # "ParseComplete" /\ r1.msg.t # "ErrorResponse" ->
               Stop(r1.msg, r1.io)
          [] OTHER ->
               LET r2 == read_message(r1.io)
               IN  IF r2.msg.t # "ParameterDescription" THEN Stop(r2.msg, r2.io)
                   ELSE LET r3 == read_message(r2.io)
                        IN  IF r3.msg.t \notin {"RowDescription", "NoData"}
                            THEN Stop(r3.msg, r3.io)
                            ELSE LET w == wait_for_ready(r3.io)
                                 IN  IF w.st # "ok" THEN w
                                     ELSE [w EXCEPT !.val =
                                             [nparams |-> Len(r2.msg.v),
                                              param_types |->
                                                param_types(r2.msg.v),
                                              result_desc |->
                                                IF r3.msg.t = "NoData" THEN << >>
                                                ELSE result_desc(r3.msg.v)]]

\* try_prepare without the increment of next_stmt_id
next_stmt_id_kept == next_stmt_id

\* the statement name try_prepare allocates, and the counter after it
stmt_name == next_stmt_id
next_stmt_id_after == next_stmt_id + 1

\* PostgresConnection::try_prepare and ::prepare, also through
\* PostgresTransaction
try_prepare(q) ==
    /\ task = "running"
    /\ Open
    /\ next_stmt_id < MaxStmtId
    /\ \E o \in { [r |-> inner_try_prepare(IO(inbuf \o reply)),
                     reply |-> Answer(reply)] : reply \in Noisy(PrepareReplies(q)) } :
         LET wrote == <<Parse(stmt_name), Describe(stmt_name), Sync>>
             r == o.r
         IN  /\ next_stmt_id' = next_stmt_id_after
             /\ inbuf' = r.io.buf
             /\ stmts' = IF r.st = "ok"
                         THEN Append(stmts, [name |-> stmt_name,
                                             query |-> q,
                                             nparams |-> r.val.nparams,
                                             param_types |-> r.val.param_types,
                                             result_desc |-> r.val.result_desc,
                                             next_portal_id |-> 0,
                                             depth |-> Depth,
                                             live |-> TRUE])
                         ELSE stmts
             /\ task' \in Tasks(r.st)
             /\ op' = Op("try_prepare",
                         [name |-> stmt_name, query |-> q, reply |-> o.reply],
                         wrote, r, r.st)
             /\ cell' = with_mut_ref(cell, r.st)
    /\ UNCHANGED <<teardown, cursors, txs, svpts, url, net, terminated, notice_handler>>

\* what Drop for NormalPostgresStatement writes
close_statement_unsynced(name) == <<CloseS(name)>>
close_statement(name) == <<CloseS(name), Sync>>

\* Drop for NormalPostgresStatement
drop_stmt(s) ==
    /\ task \in {"running", "failing"}
    /\ s \in Live(stmts)
    /\ stmts[s].depth = Depth
    /\ \A c \in Live(cursors) : cursors[c].stmt # s
    /\ \E r \in { drain_until_ready(io) : io \in Answered(CloseReplies) } :
         LET wrote == close_statement(stmts[s].name)
         IN  /\ inbuf' = r.io.buf
             /\ task' = TaskAfter(r.st, FALSE)
             /\ op' = Op("drop_stmt", s, wrote, r, r.st)
             /\ cell' = exchange(cell, wrote, r)
    /\ stmts' = [stmts EXCEPT ![s] = DroppedStmt(@)]
    /\ UNCHANGED <<teardown, next_stmt_id, cursors, txs, svpts, url, net, terminated, notice_handler>>

(* ---------------------------- execution ------------------------------- *)
\* NormalPostgresStatement::execute: the read after Bind, Execute, Sync
stmt_execute(io) ==
    LET r == read_message(io)
    IN  CASE r.msg.t = "BindComplete" -> Out("ok", r.io)
          [] r.msg.t = "ErrorResponse" -> db_error(r.msg, r.io)
          [] OTHER -> Stop(r.msg, r.io)

\* tag.split_iter(' ').last().unwrap(): the characters after the last space
RECURSIVE last_token(_)
last_token(tag) ==
    IF tag = << >> \/ tag[Len(tag)] = " " THEN << >>
    ELSE last_token(SubSeq(tag, 1, Len(tag) - 1)) \o <<tag[Len(tag)]>>

\* FromStr::from_str for uint: None (<< >>) unless the token is made of
\* decimal digits alone, and then Some(n) (<<n>>)
Digits == { ToString(d) : d \in 0..9 }
DigitValue(c) == CHOOSE d \in 0..9 : ToString(d) = c
RECURSIVE digits_value(_)
digits_value(s) ==
    IF s = << >> THEN 0
    ELSE 10 * digits_value(SubSeq(s, 1, Len(s) - 1)) + DigitValue(s[Len(s)])
from_str(s) ==
    IF s # << >> /\ \A i \in DOMAIN s : s[i] \in Digits
    THEN <<digits_value(s)>>
    ELSE << >>

\* the row count try_update takes from CommandComplete { tag }
command_count_ignored(tag) == 0
command_count(tag) ==
    LET n == from_str(last_token(tag))
    IN  IF n = << >> THEN 0 ELSE n[1]

\* NormalPostgresStatement::try_update: the loop after execute, and the
\* final wait_for_ready; val is the row count returned
RECURSIVE try_update_loop(_)
try_update_loop(io) ==
    LET r == read_message(io)
        done(num) == LET w == wait_for_ready(r.io)
                     IN  IF w.st = "ok" THEN [w EXCEPT !.val = num] ELSE w
    IN  CASE r.msg.t = "CommandComplete" -> done(command_count(r.msg.v))
          [] r.msg.t \in {"DataRow", "NoticeResponse"} -> try_update_loop(r.io)
          [] r.msg.t = "EmptyQueryResponse" -> done(0)
          [] r.msg.t = "ErrorResponse" -> db_error(r.msg, r.io)
          [] OTHER -> Stop(r.msg, r.io)

stmt_try_update(io) ==
    LET e == stmt_execute(io)
    IN  IF e.st = "ok" THEN try_update_loop(e.io) ELSE e

\* execute without its assertion
arity_unchecked(s, nargs) == TRUE

\* the assertion of NormalPostgresStatement::execute
arity_ok(s, nargs) == stmts[s].nparams = nargs

\* a call of a statement with nargs parameters
Call(s, nargs) == [stmt |-> s, nargs |-> nargs, nparams |-> stmts[s].nparams]

\* the answers to Bind, Execute(portal, L), Sync for queries of any size
AllBindReplies(q, L) ==
    UNION { Noisy(BindReplies(q, N, L)) : N \in PortalSizes(q) }

\* the message that completed the command in an answer
Completion(reply) ==
    LET ends == { i \in DOMAIN reply :
                    reply[i].t \in {"CommandComplete", "EmptyQueryResponse"} }
    IN  IF ends = {} THEN Msg("none", 0) ELSE reply[CHOOSE i \in ends : TRUE]

\* each outcome of try_update, with the completion message of the backend's
\* answer and the rows sent before it
UpdateOutcomes(q) ==
    { [r |-> stmt_try_update(IO(inbuf \o reply)), done |-> Completion(reply),
       rows |-> IF Completion(reply).t = "none" THEN 0 ELSE CountRows(reply)] :
      reply \in AllBindReplies(q, 0) }

\* NormalPostgresStatement::try_update and PostgresStatement::update
try_update(s, nargs) ==
    /\ task = "running"
    /\ s \in Live(stmts)
    /\ IF ~arity_ok(s, nargs)
       THEN /\ task' = "failing"
            /\ op' = Op("try_update", Call(s, nargs), << >>, Out("fail", IO(inbuf)), "fail")
            /\ UNCHANGED <<inbuf, cell>>
       ELSE \E o \in UpdateOutcomes(stmts[s].query) :
              LET wrote == <<Bind(<< >>, stmts[s].name), Execute(<< >>, 0), Sync>>
                  r == o.r
              IN  /\ inbuf' = r.io.buf
                  /\ task' \in Tasks(r.st)
                  /\ op' = [Op("try_update", Call(s, nargs), wrote, r, r.st)
                              EXCEPT !.arg = [stmt |-> s, nargs |-> nargs,
                                              nparams |-> stmts[s].nparams,
                                              done |-> o.done, rows |-> o.rows,
                                              val |-> r.val]]
                  /\ cell' = exchange(cell, wrote, r)
    /\ UNCHANGED <<teardown, next_stmt_id, stmts, cursors, txs, svpts, url, net, terminated, notice_handler>>

\* the backend's answer on the stream an operation has read from so far
Then(io, reply) == [io EXCEPT !.buf = @ \o reply]

\* a temporary statement that is closed only when its execution succeeded
one_shot_dropped_on_success(st) == st = "ok"

\* whether the statement PostgresConnection::try_update prepared is dropped
\* once stmt.try_update ended as st: it is a value of the and_then closure,
\* dropped when the closure returns or unwinds
one_shot_dropped(st) == st # "blocked"

\* PostgresConnection::try_update after a preparation that ended as p, for
\* nargs parameters: stmt.try_update, then the drop of stmt. made is whether
\* the statement was created, val the row count returned.
one_shot(p, name, q, nargs) ==
    LET prepare == <<Parse(name), Describe(name), Sync>>
        bind == <<Bind(<< >>, name), Execute(<< >>, 0), Sync>>
        end(r, wrote, closed) ==
            [r |-> r, wrote |-> wrote, made |-> p.st = "ok", closed |-> closed,
             stmt |-> p.val, prepared |-> p]
        drop(r, wrote) ==
            { LET d == drain_until_ready(Then(r.io, reply))
              IN  end([r EXCEPT !.io = d.io,
                                !.st = IF d.st = "ok" THEN r.st ELSE d.st],
                      wrote \o close_statement(name), TRUE) :
                reply \in CloseReplies }
        dropped(r, wrote) ==
            IF one_shot_dropped(r.st) THEN drop(r, wrote)
            ELSE {end(r, wrote, FALSE)}
    IN  IF p.st # "ok" THEN {end(p, prepare, FALSE)}
        ELSE IF p.val.nparams # nargs
             THEN dropped(Out("fail", p.io), prepare)
        ELSE UNION { dropped(stmt_try_update(Then(p.io, reply)), prepare \o bind) :
                       reply \in AllBindReplies(q, 0) }

\* PostgresConnection::try_update and ::update, also through
\* PostgresTransaction
conn_try_update(q, nargs) ==
    /\ task = "running"
    /\ Open
    /\ next_stmt_id < MaxStmtId
    /\ \E o \in UNION { one_shot(inner_try_prepare(IO(inbuf \o reply)), stmt_name,
                                  q, nargs) : reply \in Noisy(PrepareReplies(q)) } :
         LET r == o.r
         IN  /\ next_stmt_id' = next_stmt_id_after
             /\ inbuf' = r.io.buf
             /\ stmts' =
                  LET stmt == [name |-> stmt_name, query |-> q,
                               nparams |-> o.stmt.nparams,
                               param_types |-> o.stmt.param_types,
                               result_desc |-> o.stmt.result_desc,
                               next_portal_id |-> 0, depth |-> Depth,
                               live |-> TRUE]
                  IN  IF ~o.made THEN stmts
                      ELSE IF o.closed THEN Append(stmts, DroppedStmt(stmt))
                      ELSE Append(stmts, stmt)
             /\ task' \in Tasks(r.st)
             /\ op' = Op("conn_try_update",
                         [name |-> stmt_name, query |-> q, nargs |-> nargs,
                          made |-> o.made, closed |-> o.closed, val |-> r.val],
                         o.wrote, r, r.st)
             /\ cell' = accesses(with_mut_ref(cell, o.prepared.st),
                                 Syncs(o.wrote) - 1 + r.io.reads
                                   - o.prepared.io.reads,
                                 r.st)
    /\ UNCHANGED <<teardown, cursors, txs, svpts, url, net, terminated, notice_handler>>

(* ------------------------------ cursors ------------------------------- *)
\* PostgresResult::read_rows on a cursor's buffer; more is more_rows
RECURSIVE read_rows_loop(_, _, _)
read_rows_loop(io, data, more) ==
    LET r == read_message(io)
        break(m) == LET w == wait_for_ready(r.io)
                    IN  [w EXCEPT !.val = [data |-> data, more_rows |-> m]]
    IN  CASE r.msg.t \in {"EmptyQueryResponse", "CommandComplete"} -> break(FALSE)
          [] r.msg.t = "PortalSuspended" -> break(TRUE)
          [] r.msg.t = "DataRow" ->
               read_rows_loop(r.io, Append(data, r.msg.v), more)
          [] OTHER -> [Stop(r.msg, r.io) EXCEPT
                         !.val = [data |-> data, more_rows |-> more]]

\* read_rows whose PortalSuspended arm clears more_rows
read_rows_never_more(io, data, more) ==
    LET r == read_rows_loop(io, data, more)
    IN  [r EXCEPT !.val = [data |-> r.val.data, more_rows |-> FALSE]]

\* read_rows whose completion arm leaves more_rows set
read_rows_always_more(io, data, more) ==
    LET r == read_rows_loop(io, data, more)
    IN  [r EXCEPT !.val = [data |-> r.val.data, more_rows |-> TRUE]]

read_rows(io, data, more) == read_rows_loop(io, data, more)

\* the portal name try_lazy_query allocates, and the counter after it
portal_name(s) == <<stmts[s].name, stmts[s].next_portal_id>>
next_portal_id_after(s) == stmts[s].next_portal_id + 1

\* NormalPostgresStatement::try_lazy_query after the portal name is taken:
\* execute, then read_rows into the new cursor's buffer; val is the buffer
\* and more_rows, made is whether the PostgresResult was constructed
lazy_query_read(io) ==
    LET e == stmt_execute(io)
        r == IF e.st = "ok" THEN read_rows(e.io, << >>, TRUE) ELSE e
    IN  [st |-> r.st, io |-> r.io, code |-> r.code, val |-> r.val,
         made |-> e.st = "ok"]

\* each outcome of try_lazy_query with the query's size N and the rows the
\* backend sent
LazyOutcomes(q, L) ==
    UNION { { [r |-> lazy_query_read(IO(inbuf \o reply)), N |-> N,
               sent |-> CountRows(reply)] : reply \in Noisy(BindReplies(q, N, L)) } :
            N \in PortalSizes(q) }

\* NormalPostgresStatement::try_lazy_query (row_limit L; try_query is L = 0),
\* also through query and lazy_query. A row limit above 0 is offered by
\* TransactionalPostgresStatement alone.
try_lazy_query(s, L, nargs) ==
    /\ task = "running"
    /\ s \in Live(stmts)
    /\ stmts[s].next_portal_id < MaxPortalId
    /\ L > 0 => stmts[s].depth > 0
    /\ stmts' = [stmts EXCEPT ![s].next_portal_id = next_portal_id_after(s)]
    /\ IF ~arity_ok(s, nargs)
       THEN /\ task' = "failing"
            /\ op' = Op("try_lazy_query", Call(s, nargs), << >>, Out("fail", IO(inbuf)), "fail")
            /\ UNCHANGED <<inbuf, cursors, cell>>
       ELSE \E o \in LazyOutcomes(stmts[s].query, L) :
              LET name == portal_name(s)
                  wrote == <<Bind(name, stmts[s].name), Execute(name, L), Sync>>
                  r == o.r
                  N == o.N
              IN  /\ inbuf' = r.io.buf
                  /\ task' \in Tasks(r.st)
                  /\ op' = Op("try_lazy_query", Call(s, nargs), wrote, r, r.st)
                  /\ cell' = exchange(cell, wrote, r)
                  /\ cursors' =
                       IF r.made
                       THEN Append(cursors,
                              [stmt |-> s, name |-> name, data |-> r.val.data,
                               row_limit |-> L, more_rows |-> r.val.more_rows,
                               depth |-> Depth, live |-> TRUE, got |-> << >>,
                               srvN |-> N, srvPos |-> o.sent])
                       ELSE cursors
    /\ UNCHANGED <<teardown, next_stmt_id, txs, svpts, url, net, terminated, notice_handler>>

\* the max_rows of the Execute that PostgresResult::execute writes
execute_all_rows(row_limit) == 0
execute_max_rows(row_limit) == row_limit

\* Iterator::next for PostgresResult, with PostgresResult::execute when the
\* buffer is empty and more_rows is set
\* a next that executes whenever the buffer is empty
needs_execute_when_empty(cur) == cur.data = << >>

\* Iterator::next: if self.data.is_empty() && self.more_rows
needs_execute(cur) == cur.data = << >> /\ cur.more_rows

\* the operation before this one was a next on the cursor c that returned None
AfterNone(c) == op.name = "next" /\ op.arg = c /\ op.res = "none"

next(c) ==
    /\ task = "running"
    /\ c \in Live(cursors)
    /\ LET cur == cursors[c]
           fetch == needs_execute(cur)
           replies == IF fetch
                      THEN Noisy(ExecuteReplies(stmts[cur.stmt].query, cur.srvN,
                                                     cur.srvPos,
                                                     execute_max_rows(cur.row_limit)))
                      ELSE {<< >>}
           result_execute(io) ==
               IF fetch THEN read_rows(io, cur.data, cur.more_rows)
               ELSE [Out("ok", io) EXCEPT
                       !.val = [data |-> cur.data, more_rows |-> cur.more_rows]]
       IN  \E o \in { [r |-> result_execute(IO(inbuf \o reply)),
                        sent |-> CountRows(reply)] : reply \in replies } :
             LET wrote == IF fetch
                          THEN <<Execute(cur.name, execute_max_rows(cur.row_limit)),
                                 Sync>>
                          ELSE << >>
                 r == o.r
                 data == r.val.data
                 row == r.st = "ok" /\ data # << >>
             IN  /\ inbuf' = r.io.buf
                 /\ task' = TaskAfter(r.st, FALSE)
                 /\ cell' = exchange(cell, wrote, r)
                 /\ op' = [Op("next", c, wrote, r,
                                IF r.st # "ok" THEN r.st
                                ELSE IF row THEN "row" ELSE "none")
                             EXCEPT !.again = AfterNone(c)]
                 /\ cursors' = [cursors EXCEPT
                      ![c].data = IF row THEN Tail(data) ELSE data,
                      ![c].more_rows = r.val.more_rows,
                      ![c].got = IF row THEN Append(@, Head(data)) ELSE @,
                      ![c].srvPos = @ + o.sent]
    /\ UNCHANGED <<teardown, next_stmt_id, stmts, txs, svpts, url, net, terminated, notice_handler>>

\* what Drop for PostgresResult writes
close_portal(name) == <<CloseP(name), Sync>>

\* Drop for PostgresResult
drop_cursor(c) ==
    /\ task \in {"running", "failing"}
    /\ c \in Live(cursors)
    /\ cursors[c].depth = Depth
    /\ \E r \in { drain_until_ready(io) : io \in Answered(CloseReplies) } :
         LET wrote == close_portal(cursors[c].name)
         IN  /\ inbuf' = r.io.buf
             /\ task' = TaskAfter(r.st, FALSE)
             /\ op' = Op("drop_cursor", c, wrote, r, r.st)
             /\ cell' = exchange(cell, wrote, r)
    /\ cursors' = [cursors EXCEPT ![c] = DroppedCursor(@)]
    /\ UNCHANGED <<teardown, next_stmt_id, stmts, txs, svpts, url, net, terminated, notice_handler>>

(* --------------------------- transactions ----------------------------- *)
\* quick_query that returns without reading the answer
quick_query_unread(io) == Out("ok", io)

\* PostgresConnection::quick_query: the read loop after Query
RECURSIVE quick_query(_)
quick_query(io) ==
    LET r == read_message(io)
    IN  CASE r.msg.t = "ReadyForQuery" -> Out("ok", r.io)
          [] r.msg.t = "ErrorResponse" -> Out("fail", r.io)
          [] r.msg.t = "EOF" -> Out("blocked", r.io)
          [] OTHER -> quick_query(r.io)

\* a new PostgresTransaction; asked is the last of set_commit ("commit") and
\* set_rollback ("rollback") called on it
Transaction(nested) == [commit |-> TRUE, nested |-> nested, asked |-> "none"]

\* PostgresConnection::in_transaction, up to the call of blk
conn_in_transaction ==
    /\ task = "running"
    /\ Open
    /\ txs = << >>
    /\ \E r \in { quick_query(io) : io \in Answered(Noisy(QueryReplies)) } :
             /\ inbuf' = r.io.buf
             /\ task' = TaskAfter(r.st, FALSE)
             /\ op' = Op("in_transaction", 0, <<Query("BEGIN")>>, r, r.st)
             /\ cell' = with_mut_ref(cell, r.st)
             /\ txs' = IF r.st = "ok" THEN <<Transaction(FALSE)>> ELSE txs
    /\ UNCHANGED <<teardown, next_stmt_id, stmts, cursors, svpts, url, net, terminated, notice_handler>>

\* PostgresTransaction::in_transaction, up to the call of blk. The backend
\* establishes a savepoint named sp when it runs the command; the savepoint
\* is tagged with the depth of the scope it was made for.
tx_in_transaction ==
    /\ task = "running"
    /\ Depth >= 1
    /\ Depth < MaxDepth
    /\ Len(svpts) < MaxSavepoints
    /\ \E o \in { [r |-> quick_query(IO(inbuf \o reply)), ran |-> Ran(reply)] :
                    reply \in Noisy(QueryReplies) } :
         LET r == o.r
         IN  /\ inbuf' = r.io.buf
             /\ task' = TaskAfter(r.st, FALSE)
             /\ op' = Op("in_transaction", Depth, <<Query("SAVEPOINT sp")>>, r, r.st)
             /\ cell' = with_mut_ref(cell, r.st)
             /\ txs' = IF r.st = "ok" THEN Append(txs, Transaction(TRUE)) ELSE txs
             /\ svpts' = IF o.ran THEN Append(svpts, Depth + 1) ELSE svpts
    /\ UNCHANGED <<teardown, next_stmt_id, stmts, cursors, url, net, terminated, notice_handler>>

\* will_commit that puts back true
will_commit_resetting(i) ==
    /\ task = "running"
    /\ i \in DOMAIN txs
    /\ txs' = [txs EXCEPT ![i].commit = TRUE]
    /\ op' = Op("will_commit", [tx |-> i, commit |-> txs[i].commit], << >>,
                Out("ok", IO(inbuf)), "ok")
    /\ UNCHANGED <<teardown, task, next_stmt_id, inbuf, stmts, cursors, svpts, url, net, terminated, notice_handler, cell>>

\* PostgresTransaction::will_commit: the flag is taken, put back and returned
will_commit(i) ==
    /\ task = "running"
    /\ i \in DOMAIN txs
    /\ LET commit == txs[i].commit
       IN  /\ txs' = [txs EXCEPT ![i].commit = commit]
           /\ op' = Op("will_commit", [tx |-> i, commit |-> commit], << >>,
                       Out("ok", IO(inbuf)), "ok")
    /\ UNCHANGED <<teardown, task, next_stmt_id, inbuf, stmts, cursors, svpts, url, net, terminated, notice_handler, cell>>

\* PostgresTransaction::set_commit
set_commit(i) ==
    /\ task = "running"
    /\ i \in DOMAIN txs
    /\ txs' = [txs EXCEPT ![i].commit = TRUE, ![i].asked = "commit"]
    /\ op' = Op("set_commit", i, << >>, Out("ok", IO(inbuf)), "ok")
    /\ UNCHANGED <<teardown, task, next_stmt_id, inbuf, stmts, cursors, svpts, url, net, terminated, notice_handler, cell>>

\* set_rollback on a commit flag that all the open scopes share
set_rollback_shared(i) ==
    /\ task = "running"
    /\ i \in DOMAIN txs
    /\ txs' = [j \in DOMAIN txs |->
                 IF j = i THEN [txs[j] EXCEPT !.commit = FALSE, !.asked = "rollback"]
                 ELSE [txs[j] EXCEPT !.commit = FALSE]]
    /\ op' = Op("set_rollback", i, << >>, Out("ok", IO(inbuf)), "ok")
    /\ UNCHANGED <<teardown, task, next_stmt_id, inbuf, stmts, cursors, svpts, url, net, terminated, notice_handler, cell>>

\* PostgresTransaction::set_rollback
set_rollback(i) ==
    /\ task = "running"
    /\ i \in DOMAIN txs
    /\ txs' = [txs EXCEPT ![i].commit = FALSE, ![i].asked = "rollback"]
    /\ op' = Op("set_rollback", i, << >>, Out("ok", IO(inbuf)), "ok")
    /\ UNCHANGED <<teardown, task, next_stmt_id, inbuf, stmts, cursors, svpts, url, net, terminated, notice_handler, cell>>

\* exit_query without the test of task::failing()
exit_query_not_failing(failing, commit, nested) ==
    IF ~commit
    THEN (IF nested THEN "ROLLBACK TO sp" ELSE "ROLLBACK")
    ELSE (IF nested THEN "RELEASE sp" ELSE "COMMIT")

\* the command Drop for PostgresTransaction issues
exit_query(failing, commit, nested) ==
    IF failing \/ ~commit
    THEN (IF nested THEN "ROLLBACK TO sp" ELSE "ROLLBACK")
    ELSE (IF nested THEN "RELEASE sp" ELSE "COMMIT")

\* The backend's savepoints after it ran a command. A savepoint name refers
\* to the most recent savepoint of that name, and every savepoint here is
\* named sp: ROLLBACK TO sp rolls back to the most recent savepoint and
\* keeps it, RELEASE sp destroys it, COMMIT and ROLLBACK end the
\* transaction and all its savepoints.
SavepointsAfter(q, sv) ==
    CASE q \in {"COMMIT", "ROLLBACK"} -> << >>
      [] q = "RELEASE sp" -> SubSeq(sv, 1, Len(sv) - 1)
      [] OTHER -> sv

\* a savepoint whose scope has ended is tagged 0
Orphan(sv, d) == [i \in DOMAIN sv |-> IF sv[i] = d THEN 0 ELSE sv[i]]

\* Drop for PostgresTransaction, at the end of the innermost open scope:
\* what was created in the scope has been dropped before
drop_tx ==
    /\ task \in {"running", "failing"}
    /\ txs # << >>
    /\ \A s \in Live(stmts) : stmts[s].depth < Depth
    /\ \A c \in Live(cursors) : cursors[c].depth < Depth
    /\ LET tx == txs[Depth]
           q == exit_query(task = "failing", tx.commit, tx.nested)
           target == IF svpts = << >> THEN -1 ELSE svpts[Len(svpts)]
           answers == IF q \in {"ROLLBACK TO sp", "RELEASE sp"} /\ svpts = << >>
                      THEN { a \in QueryReplies : ~Ran(a) }
                      ELSE QueryReplies
       IN  \E o \in { [r |-> quick_query(IO(inbuf \o reply)), ran |-> Ran(reply)] :
                      reply \in Noisy(answers) } :
             LET r == o.r
             IN  /\ inbuf' = r.io.buf
                 /\ task' = TaskAfter(r.st, FALSE)
                 /\ cell' = with_mut_ref(cell, r.st)
                 /\ op' = Op("drop_tx",
                             [failing |-> task = "failing", commit |-> tx.commit,
                              nested |-> tx.nested, asked |-> tx.asked,
                              depth |-> Depth, target |-> target,
                              ran |-> o.ran],
                             <<Query(q)>>, r, r.st)
                 /\ svpts' = Orphan(IF o.ran \/ ~tx.nested
                                    THEN SavepointsAfter(q, svpts) ELSE svpts,
                                    Depth)
    /\ txs' = SubSeq(txs, 1, Depth - 1)
    /\ UNCHANGED <<teardown, next_stmt_id, stmts, cursors, url, net, terminated, notice_handler>>

(* ---------------------------- connecting ----------------------------- *)
\* The backend at startup: its first message, its answer to a
\* PasswordMessage, and what it sends after AuthenticationOk.
Servers ==
    [first : {AuthenticationOk, AuthenticationCleartextPassword,
              AuthenticationMD5Password(1), AuthenticationKerberosV5,
              AuthenticationSCMCredential, AuthenticationGSS, AuthenticationSSPI}
             \cup { ErrorResponse(c) : c \in ErrCodes },
     second : {AuthenticationOk} \cup { ErrorResponse(c) : c \in ErrCodes },
     tail : { <<ParameterStatus, BackendKeyData, ReadyForQuery>>,
              <<NoticeResponse(1), ReadyForQuery>> }
            \cup { <<ErrorResponse(c)>> : c \in ErrCodes }]

\* an authentication message and what follows it
Authenticated(m, srv) ==
    <<m>> \o (IF m.t = "AuthenticationOk" THEN srv.tail ELSE << >>)

\* Md5::result_str of an input, and a salt's bytes
md5_hex(x) == <<"md5(">> \o x \o <<")">>
Salt(v) == <<"salt", ToString(v)>>

\* SocketAddr { ip: *addr, port: port }, the address by its place in the
\* answer of the resolver
SocketAddr(ip, port) == [ip |-> ip, port |-> port]

\* a loop that goes on to the later addresses after one has connected
RECURSIVE connect_from_trying_all(_, _, _)
connect_from_trying_all(addrs, port, i) ==
    IF i > Len(addrs) THEN [socket |-> 0, tried |-> << >>]
    ELSE LET rest == connect_from_trying_all(addrs, port, i + 1)
         IN  [socket |-> IF addrs[i] THEN i ELSE rest.socket,
              tried |-> <<SocketAddr(i, port)>> \o rest.tried]

\* InnerPostgresConnection::open_socket from the i-th address on: the
\* number of the first address that connects, 0 when none does, and the
\* TcpStream::connect calls made, in order
RECURSIVE connect_from(_, _, _)
connect_from(addrs, port, i) ==
    IF i > Len(addrs) THEN [socket |-> 0, tried |-> << >>]
    ELSE IF addrs[i] THEN [socket |-> i, tried |-> <<SocketAddr(i, port)>>]
    ELSE LET rest == connect_from(addrs, port, i + 1)
         IN  [rest EXCEPT !.tried = <<SocketAddr(i, port)>> \o @]

\* no call of open_socket: nothing resolved, nothing tried
NoSocket == [err |-> "", socket |-> 0, looked_up |-> FALSE, tried |-> << >>]

\* InnerPostgresConnection::open_socket; looked_up says that
\* net::get_host_addresses was called
open_socket(host, port) ==
    IF ~host.resolves
    THEN [err |-> "DnsError", socket |-> 0, looked_up |-> TRUE, tried |-> << >>]
    ELSE LET c == connect_from(host.addrs, port, 1)
         IN  [err |-> IF c.socket = 0 THEN "SocketError" ELSE "",
              socket |-> c.socket, looked_up |-> TRUE, tried |-> c.tried]

\* the password handle_auth sends for AuthenticationMD5Password { salt }
md5_password_unsalted(pass, user, salt) ==
    <<"md5">> \o md5_hex(md5_hex(pass \o user))
md5_password(pass, user, salt) ==
    <<"md5">> \o md5_hex(md5_hex(pass \o user) \o Salt(salt))

\* what handle_auth met: the message of its first read, the message of its
\* read after a PasswordMessage, and how it ended
NoMsg == Msg("none", 0)
Auth(first, second, st) == [first |-> first, second |-> second, st |-> st]

\* the end of try_connect or of one of its routines: st is "ok", the
\* PostgresConnectError, "fail" or "blocked"
Ans(st, io, wrote) ==
    [st |-> st, io |-> io, wrote |-> wrote, code |-> 0,
     auth |-> Auth(NoMsg, NoMsg, "none"), sock |-> NoSocket]

\* InnerPostgresConnection::handle_auth
handle_auth(io, user, srv) ==
    LET r == read_message(io)
        end(st, rio, wrote, second, code) ==
            [Ans(st, rio, wrote) EXCEPT !.code = code,
                                        !.auth = Auth(r.msg, second, st)]
        send(pw) ==
            LET sent == [r.io EXCEPT !.buf = @ \o Authenticated(srv.second, srv)]
                r2 == read_message(sent)
                wrote == <<PasswordMessage(pw)>>
            IN  CASE r2.msg.t = "AuthenticationOk" ->
                       end("ok", r2.io, wrote, r2.msg, 0)
                  [] r2.msg.t = "ErrorResponse" ->
                       end("DbError", r2.io, wrote, r2.msg, r2.msg.v)
                  [] OTHER ->
                       end(Stop(r2.msg, r2.io).st, r2.io, wrote, r2.msg, 0)
    IN  CASE r.msg.t = "AuthenticationOk" -> end("ok", r.io, << >>, NoMsg, 0)
          [] r.msg.t = "AuthenticationCleartextPassword" ->
               IF user.pass = << >>
               THEN end("MissingPassword", r.io, << >>, NoMsg, 0)
               ELSE send(user.pass)
          [] r.msg.t = "AuthenticationMD5Password" ->
               IF user.pass = << >>
               THEN end("MissingPassword", r.io, << >>, NoMsg, 0)
               ELSE send(md5_password(user.pass, user.user, r.msg.v))
          [] r.msg.t \in {"AuthenticationKerberosV5", "AuthenticationSCMCredential",
                          "AuthenticationGSS", "AuthenticationSSPI"} ->
               end("UnsupportedAuthentication", r.io, << >>, NoMsg, 0)
          [] OTHER -> end(Stop(r.msg, r.io).st, r.io, << >>, NoMsg, 0)

\* the loop of try_connect after handle_auth
RECURSIVE startup_loop(_)
startup_loop(io) ==
    LET r == read_message(io)
    IN  CASE r.msg.t = "BackendKeyData" -> startup_loop(r.io)
          [] r.msg.t = "ReadyForQuery" -> Out("ok", r.io)
          [] OTHER -> Stop(r.msg, r.io)

\* startup parameters that say database whatever the path is
startup_parameters_always_database(u) ==
    u.args \o << <<"client_encoding", "UTF8">>, <<"TimeZone", "GMT">>,
                 <<"user", u.user[1]>>, <<"database", u.path>> >>

\* the parameters of the StartupMessage
startup_parameters(u) ==
    u.args \o << <<"client_encoding", "UTF8">>, <<"TimeZone", "GMT">>,
                 <<"user", u.user[1]>> >>
           \o (IF u.path # << >> THEN << <<"database", u.path[1]>> >> ELSE << >>)

\* the port try_connect opens the socket on
connect_port(u) == IF u.port = 0 THEN 5432 ELSE u.port

\* InnerPostgresConnection::try_connect against a backend srv. Once the
\* InnerPostgresConnection exists, leaving without it drops it, which writes
\* Terminate.
inner_try_connect(u, host, srv) ==
    LET none == IO(<< >>)
        sock == open_socket(host, connect_port(u))
        startup == <<StartupMessage(startup_parameters(u))>>
        a == [handle_auth(IO(Authenticated(srv.first, srv)), u, srv)
                EXCEPT !.sock = sock]
        l == startup_loop(a.io)
    IN  IF ~u.valid THEN Ans("InvalidUrl", none, << >>)
        ELSE IF u.user = << >> THEN Ans("MissingUser", none, << >>)
        ELSE IF sock.err # ""
             THEN [Ans(sock.err, none, << >>) EXCEPT !.sock = sock]
        ELSE IF a.st # "ok"
             THEN [a EXCEPT !.wrote = startup \o @ \o <<Terminate>>]
        ELSE IF l.st # "ok"
             THEN [a EXCEPT !.st = l.st, !.io = l.io,
                            !.wrote = startup \o @ \o <<Terminate>>]
        ELSE [a EXCEPT !.io = l.io, !.wrote = startup \o @]

\* PostgresConnection::try_connect
try_connect ==
    /\ op.name = "start"
    /\ \E a \in { inner_try_connect(url, net, srv) : srv \in Servers } :
         /\ op' = [name |-> "try_connect",
                   arg |-> [socket |-> a.sock.socket, looked_up |-> a.sock.looked_up,
                            tried |-> a.sock.tried,
                            port |-> connect_port(url), auth |-> a.auth],
                   again |-> FALSE, idle |-> TRUE, wrote |-> a.wrote, rfq |-> a.io.rfq,
                   err |-> a.io.err, res |-> a.st, code |-> a.code,
                   ntc |-> Handled(DefaultNoticeHandler, a.io.ntc)]
         /\ inbuf' = a.io.buf
         /\ task' = CASE a.st = "fail" -> "failing"
                      [] a.st = "blocked" -> "blocked"
                      [] OTHER -> task
         /\ terminated' = Terminates(a.wrote)
         /\ cell' = IF a.st = "ok" THEN "full" ELSE "none"
    /\ UNCHANGED <<teardown, next_stmt_id, stmts, cursors, txs, svpts, url, net,
                   notice_handler>>

\* Drop for InnerPostgresConnection, when the PostgresConnection goes: the
\* values that borrow it are gone by then
drop_conn ==
    /\ task \in {"running", "failing"}
    /\ Open
    /\ Live(stmts) = {} /\ Live(cursors) = {} /\ txs = << >>
    /\ op' = Op("drop_conn", 0, <<Terminate>>, Out("ok", IO(inbuf)), "ok")
    /\ terminated' = terminated + 1
    /\ cell' = "none"
    /\ UNCHANGED <<teardown, task, next_stmt_id, inbuf, stmts, cursors, txs, svpts, url, net,
                   notice_handler>>

(* ------------------------------ columns ------------------------------ *)
\* result_desc.iter().position(|desc| desc.name == col) from the i-th
\* description on: Some(index) as <<index>>, None as << >>; indices from 0
RECURSIVE position_from(_, _, _)
position_from(descs, col, i) ==
    IF i > Len(descs) THEN << >>
    ELSE IF descs[i] = col THEN <<i - 1>>
    ELSE position_from(descs, col, i + 1)

\* a lookup that returns the last column of the name
find_col_named_last(descs, col) ==
    LET at == { i \in DOMAIN descs : descs[i] = col }
    IN  IF at = {} THEN << >> ELSE <<(CHOOSE i \in at : \A j \in at : j <= i) - 1>>

\* NormalPostgresStatement::find_col_named
find_col_named(descs, col) == position_from(descs, col, 1)

\* a row is indexed by a uint, an int or a &str
RowIndexes ==
    [by : {"uint"}, v : 0..MaxCols] \cup [by : {"int"}, v : -1..MaxCols]
    \cup [by : {"str"}, v : ColumnNames]

\* RowIndex::idx: the column as <<index>>, << >> when the call fails
row_idx(descs, i) ==
    CASE i.by = "uint" -> <<i.v>>
      [] i.by = "int" -> IF i.v >= 0 THEN <<i.v>> ELSE << >>
      [] OTHER -> find_col_named(descs, i.v)

\* Index::index for PostgresRow: the cell as <<cell>>, << >> when the call
\* fails (idx fails, or the index is outside result_desc or data)
row_index(descs, data, i) ==
    LET idx == row_idx(descs, i)
    IN  IF idx = << >> \/ idx[1] >= Len(descs) \/ idx[1] >= Len(data) THEN << >>
        ELSE <<data[idx[1] + 1]>>

\* the rows of a statement: a cell for each column
RowsOf(descs) == [1..Len(descs) -> Cells]

\* row[i] on a row of the statement s
index(s, data, i) ==
    /\ task = "running"
    /\ s \in Live(stmts)
    /\ LET found == row_index(stmts[s].result_desc, data, i)
       IN  /\ op' = [Op("index", [stmt |-> s, data |-> data, idx |-> i], << >>,
                        Out("ok", IO(inbuf)), IF found = << >> THEN "fail" ELSE "ok")
                      EXCEPT !.arg = [stmt |-> s, data |-> data, idx |-> i,
                                      col |-> IF i.by = "str"
                                              THEN find_col_named(
                                                     stmts[s].result_desc, i.v)
                                              ELSE << >>,
                                      cell |-> found]]
           /\ task' = IF found = << >> THEN "failing" ELSE task
    /\ UNCHANGED <<teardown, next_stmt_id, inbuf, stmts, cursors, txs, svpts, url, net,
                   terminated, notice_handler, cell>>

(* ------------------------------ notices ------------------------------ *)
\* util::replace(&mut self.notice_handler, handler)
replace_returns_new(current, handler) == [now |-> handler, old |-> handler]
replace(current, handler) == [now |-> handler, old |-> current]

\* PostgresConnection::set_notice_handler
set_notice_handler(h) ==
    /\ task = "running"
    /\ Open
    /\ cell' = put_back(take(cell))
    /\ LET r == replace(notice_handler, h)
       IN  /\ notice_handler' = r.now
           /\ op' = Op("set_notice_handler", h, << >>, Out("ok", IO(inbuf)), r.old)
    /\ UNCHANGED <<teardown, task, next_stmt_id, inbuf, stmts, cursors, txs, svpts, url, net,
                   terminated>>

\* PostgresConnection::read_message, once, on a stream that holds messages
conn_read_message ==
    /\ task = "running"
    /\ Open
    /\ inbuf # << >>
    /\ LET r == read_message(IO(inbuf))
       IN  /\ inbuf' = r.io.buf
           /\ op' = Op("read_message", inbuf, << >>, Out("ok", r.io), r.msg)
           /\ task' = IF r.msg = EOF THEN "blocked" ELSE task
           /\ cell' = with_mut_ref(cell, IF r.msg = EOF THEN "blocked" ELSE "ok")
    /\ UNCHANGED <<teardown, next_stmt_id, stmts, cursors, txs, svpts, url, net, terminated,
                   notice_handler>>

\* what a backend may have sent when read_message is called
StreamMsgs ==
    {NoticeResponse(1), NoticeResponse(2), ParameterStatus, ReadyForQuery, DataRow(1)}
Streams == UNION { [1..n -> StreamMsgs] : n \in 1..MaxStream }

(* ------------------------------ teardown ------------------------------ *)
\* io_error::cond.trap(|_| {}).inside: the handler returns to the I/O call
\* that raised io_error and the block goes on. What a write on the stream
\* delivers to the backend:
delivered(stream, ms) == IF stream = "up" THEN ms ELSE << >>

\* the stream's read_message on a broken stream, its io_error trapped: the
\* codec has no frame to decode and fails
read_broken == "fail"

\* the stream breaks: from now on every write and every read fails
break_stream ==
    /\ task \in {"running", "failing"}
    /\ Open
    /\ teardown.stream = "up"
    /\ teardown.st = "idle"
    /\ teardown' = [teardown EXCEPT !.stream = "broken"]
    /\ inbuf' = << >>
    /\ UNCHANGED <<task, next_stmt_id, stmts, cursors, txs, svpts, op, url, net,
                   terminated, notice_handler, cell>>

\* the values a Drop can run on: the statements without cursors and the
\* cursors, of the innermost scope
Droppable ==
    { <<"stmt", s>> : s \in { i \in Live(stmts) :
                                 /\ stmts[i].depth = Depth
                                 /\ \A c \in Live(cursors) : cursors[c].stmt # i } }
    \cup { <<"cursor", c>> : c \in { i \in Live(cursors) : cursors[i].depth = Depth } }

\* Drop for NormalPostgresStatement and Drop for PostgresResult, up to the
\* loop: Close and Sync are written; the backend, when they reach it, has an
\* answer to send
begin_drop(d) ==
    /\ task \in {"running", "failing"}
    /\ Open
    /\ teardown.st # "reading"
    /\ d \in Droppable
    /\ LET wrote == IF d[1] = "stmt" THEN close_statement(stmts[d[2]].name)
                    ELSE close_portal(cursors[d[2]].name)
       IN  /\ \E reply \in Noisy(CloseReplies) :
                 teardown' = [teardown EXCEPT
                                !.st = "reading", !.of = d,
                                !.pending = IF delivered(teardown.stream, wrote) = << >>
                                            THEN << >> ELSE reply]
           /\ op' = Op(IF d[1] = "stmt" THEN "drop_stmt" ELSE "drop_cursor", d[2],
                       wrote, Out("ok", IO(inbuf)), "begun")
    /\ cell' = with_mut_ref(cell, "ok")
    /\ UNCHANGED <<task, next_stmt_id, inbuf, stmts, cursors, txs, svpts, url, net,
                   terminated, notice_handler>>

\* the backend sends the next message of its answer
backend_sends ==
    /\ teardown.stream = "up"
    /\ teardown.pending # << >>
    /\ inbuf' = Append(inbuf, Head(teardown.pending))
    /\ teardown' = [teardown EXCEPT !.pending = Tail(@)]
    /\ UNCHANGED <<task, next_stmt_id, stmts, cursors, txs, svpts, op, url, net,
                   terminated, notice_handler, cell>>

\* the value of the Drop is gone, whether its Drop returned or failed
Gone(d) ==
    /\ stmts' = IF d[1] = "stmt" THEN [stmts EXCEPT ![d[2]] = DroppedStmt(@)]
                ELSE stmts
    /\ cursors' = IF d[1] = "cursor" THEN [cursors EXCEPT ![d[2]] = DroppedCursor(@)]
                  ELSE cursors

\* one turn of the loop of the Drop: read_message, break on ReadyForQuery.
\* On a working stream the read waits for a message; on a broken one it
\* ends as read_broken says.
teardown_read ==
    /\ teardown.st = "reading"
    /\ IF teardown.stream = "broken"
       THEN /\ task' = TaskAfter(read_broken, FALSE)
            /\ teardown' = [teardown EXCEPT
                              !.st = IF read_broken = "ok" THEN "idle" ELSE "failed",
                              !.of = IF read_broken = "ok" THEN << >> ELSE @]
            /\ op' = [op EXCEPT !.res = read_broken]
            /\ Gone(teardown.of)
            /\ cell' = with_mut_ref(cell, read_broken)
            /\ UNCHANGED inbuf
       ELSE /\ inbuf # << >>
            /\ LET r == read_message(IO(inbuf))
                   ready == r.msg.t = "ReadyForQuery"
               IN  /\ inbuf' = r.io.buf
                   /\ op' = [op EXCEPT
                               !.res = IF ready THEN "ok" ELSE @,
                               !.rfq = @ + r.io.rfq,
                               !.ntc = @ \o Handled(notice_handler, r.io.ntc)]
                   /\ teardown' = IF ready
                                  THEN [teardown EXCEPT !.st = "idle", !.of = << >>]
                                  ELSE teardown
                   /\ IF ready THEN Gone(teardown.of)
                      ELSE UNCHANGED <<stmts, cursors>>
            /\ cell' = with_mut_ref(cell, "ok")
            /\ UNCHANGED task
    /\ UNCHANGED <<next_stmt_id, txs, svpts, url, net, terminated, notice_handler>>

(* -------------------------- specifications --------------------------- *)
LiveCount(seq) == Cardinality(Live(seq))

\* Exchanges of statements and cursors, inside and outside one top-level
\* transaction.
Next ==
    \/ \E q \in {"SELECT"} : LiveCount(stmts) < MaxLive /\ try_prepare(q)
    \/ \E s \in DOMAIN stmts : drop_stmt(s)
    \/ \E s \in DOMAIN stmts, n \in 0..MaxParams : try_update(s, n)
    \/ \E s \in DOMAIN stmts, L \in 0..MaxLimit, n \in 0..MaxParams :
         LiveCount(cursors) < MaxLive /\ try_lazy_query(s, L, n)
    \/ \E c \in DOMAIN cursors : next(c)
    \/ \E c \in DOMAIN cursors : drop_cursor(c)
    \/ conn_in_transaction
    \/ drop_tx
    \/ drop_conn

Spec == Init /\ [][Next]_vars

\* Transaction scopes: top-level, nested and nested-within-nested.
NextTx ==
    \/ conn_in_transaction
    \/ tx_in_transaction
    \/ \E i \in DOMAIN txs : set_commit(i)
    \/ \E i \in DOMAIN txs : set_rollback(i)
    \/ \E i \in DOMAIN txs : will_commit(i)
    \/ drop_tx

SpecTx == Init /\ [][NextTx]_vars

\* Statements and their portals, several of each alive at once.
NextNames ==
    \/ try_prepare("SELECT")
    \/ \E s \in DOMAIN stmts, n \in 0..MaxParams :
         LiveCount(cursors) < MaxLiveNames /\ try_lazy_query(s, 0, n)
    \/ \E c \in DOMAIN cursors : drop_cursor(c)
    \/ \E s \in DOMAIN stmts : drop_stmt(s)

SpecNames == Init /\ [][NextNames]_vars

\* Updates by statements of every kind of query.
NextUpdate ==
    \/ \E q \in Queries : LiveCount(stmts) < MaxLive /\ try_prepare(q)
    \/ \E s \in DOMAIN stmts, n \in 0..MaxParams : try_update(s, n)
    \/ \E s \in DOMAIN stmts : drop_stmt(s)

SpecUpdate == Init /\ [][NextUpdate]_vars

\* Preparation of statements of every kind of query.
NextPrepare ==
    \/ \E q \in Queries : LiveCount(stmts) < MaxLiveNames /\ try_prepare(q)
    \/ \E s \in DOMAIN stmts : drop_stmt(s)

SpecPrepare == Init /\ [][NextPrepare]_vars

\* Statements and cursors inside and outside transaction scopes, top-level
\* and nested.
NextScopes ==
    \/ conn_in_transaction
    \/ Depth < MaxScopes /\ tx_in_transaction
    \/ LiveCount(stmts) < MaxLive /\ try_prepare("CREATE TABLE")
    \/ \E s \in DOMAIN stmts :
         LiveCount(cursors) < MaxLive /\ try_lazy_query(s, 0, stmts[s].nparams)
    \/ \E c \in DOMAIN cursors : drop_cursor(c)
    \/ \E s \in DOMAIN stmts : drop_stmt(s)
    \/ drop_tx

SpecScopes == Init /\ [][NextScopes]_vars

\* One caller using every operation that goes through the cell of the
\* connection.
NextCell ==
    \/ LiveCount(stmts) < MaxLive /\ try_prepare("SELECT")
    \/ \E s \in DOMAIN stmts, n \in 0..MaxParams : try_update(s, n)
    \/ \E q \in {"UPDATE"} : conn_try_update(q, 0)
    \/ \E s \in DOMAIN stmts, n \in 0..MaxParams :
         LiveCount(cursors) < MaxLive /\ try_lazy_query(s, MaxLimit, n)
    \/ \E c \in DOMAIN cursors : next(c)
    \/ \E h \in {1} : set_notice_handler(h)
    \/ conn_in_transaction
    \/ \E c \in DOMAIN cursors : drop_cursor(c)
    \/ \E s \in DOMAIN stmts : drop_stmt(s)
    \/ drop_tx

SpecCell == Init /\ [][NextCell]_vars

\* Teardown step by step, on a working stream and on a broken one. The Drop
\* runs its loop without waiting for anything but the stream, and the backend
\* sends the answer to what reached it.
NextTeardown ==
    \/ /\ teardown = NoTeardown
       /\ LiveCount(stmts) < MaxLive
       /\ try_prepare("CREATE TABLE")
    \/ /\ teardown = NoTeardown
       /\ \E s \in DOMAIN stmts :
            LiveCount(cursors) < MaxLive /\ try_lazy_query(s, 0, stmts[s].nparams)
    \/ break_stream
    \/ \E d \in Droppable : begin_drop(d)
    \/ backend_sends
    \/ teardown_read
    \/ teardown.st # "reading" /\ drop_conn

SpecTeardown ==
    /\ Init
    /\ [][NextTeardown]_vars
    /\ WF_vars(teardown_read)
    /\ WF_vars(backend_sends)

\* Updates that are run once.
NextOneShot ==
    \E q \in Queries, n \in 0..MaxParams : conn_try_update(q, n)

SpecOneShot == Init /\ [][NextOneShot]_vars

\* Rows of a statement whose result has any columns, indexed by position
\* and by name.
InitColumns ==
    /\ op = [name |-> "try_prepare", arg |-> 0, again |-> FALSE, idle |-> TRUE,
             wrote |-> <<Parse(0), Describe(0), Sync>>, rfq |-> 1, err |-> 0,
             res |-> "ok", code |-> 0, ntc |-> << >>]
    /\ url = [valid |-> TRUE, user |-> <<"alice">>, pass |-> << >>, port |-> 0,
              path |-> << >>, args |-> << >>]
    /\ net = [resolves |-> TRUE, addrs |-> <<TRUE>>]
    /\ task = "running" /\ next_stmt_id = 1 /\ inbuf = << >> /\ cursors = << >>
    /\ txs = << >> /\ svpts = << >> /\ terminated = 0
    /\ notice_handler = DefaultNoticeHandler
    /\ cell = "full"
    /\ teardown = NoTeardown
    /\ \E descs \in UNION { [1..n -> {"a", "b"}] : n \in 0..MaxCols } :
         stmts = << [name |-> 0, query |-> "SELECT", nparams |-> 0,
                     param_types |-> << >>,
                     result_desc |-> descs, next_portal_id |-> 0, depth |-> 0,
                     live |-> TRUE] >>

NextColumns ==
    \E s \in DOMAIN stmts, i \in RowIndexes :
      \E data \in RowsOf(stmts[s].result_desc) : index(s, data, i)

SpecColumns == InitColumns /\ [][NextColumns]_vars

\* Opening a connection: any URL, any host, any backend.
InitConnect ==
    /\ Connected
    /\ cell = "none"
    /\ teardown = NoTeardown
    /\ op = [name |-> "start", arg |-> 0, again |-> FALSE, idle |-> TRUE, wrote |-> << >>, rfq |-> 0,
             err |-> 0, res |-> "none", code |-> 0, ntc |-> << >>]
    /\ url \in Urls
    /\ net \in Nets

NextConnect == try_connect \/ drop_conn

SpecConnect == InitConnect /\ [][NextConnect]_vars

\* Reading a stream message by message, the notice handler replaced in
\* between.
InitNotices ==
    /\ inbuf \in Streams
    /\ op = [name |-> "try_connect", arg |-> 0, again |-> FALSE, idle |-> TRUE, wrote |-> << >>, rfq |-> 0,
             err |-> 0, res |-> "ok", code |-> 0, ntc |-> << >>]
    /\ url = [valid |-> TRUE, user |-> <<"alice">>, pass |-> << >>, port |-> 0,
              path |-> << >>, args |-> << >>]
    /\ net = [resolves |-> TRUE, addrs |-> <<TRUE>>]
    /\ task = "running" /\ next_stmt_id = 0 /\ stmts = << >> /\ cursors = << >>
    /\ txs = << >> /\ svpts = << >> /\ terminated = 0
    /\ notice_handler = DefaultNoticeHandler
    /\ cell = "full"
    /\ teardown = NoTeardown

NextNotices ==
    \/ conn_read_message
    \/ \E h \in Handlers : set_notice_handler(h)

SpecNotices == InitNotices /\ [][NextNotices]_vars

(* ------------------------------ claims -------------------------------- *)
\* the operation returned to its caller, with a value or with a DbError
Returned == op.res \in {"ok", "err", "row", "none"}
Executions == {"try_update", "try_lazy_query"}

\* C1 (Spec). Ready symmetry: an operation that started on an idle
\* connection and returned has read one ReadyForQuery for each Sync or Query
\* it wrote, and has left no backend message unread.
ReadySymmetry ==
    (op.idle /\ Returned) => (op.rfq = Syncs(op.wrote) /\ inbuf = << >>)

\* an execution answered by an ErrorResponse after some DataRow returned the
\* error, with its ReadyForQuery read
ReadySymmetryWitness ==
    /\ op.name = "try_update" /\ op.idle /\ op.res = "err" /\ op.err = 2
    /\ op.rfq = 1 /\ Len(op.wrote) = 3 /\ inbuf = << >> /\ task = "running"

\* C2 (Spec). Error propagation: whenever an operation that started on an
\* idle connection read an ErrorResponse, it has read through the following
\* ReadyForQuery when it ends, so that the connection is idle again.
ErrorPropagation ==
    (op.idle /\ op.err # 0) => (op.rfq = Syncs(op.wrote) /\ inbuf = << >>)

\* C3 (Spec). Error recovery on execution: try_update and try_lazy_query
\* answered by an ErrorResponse return Err(DbError) with the code of that
\* response instead of failing, and leave the connection idle for the next
\* try_prepare.
ExecutionErrorReturned ==
    (op.name \in Executions /\ op.idle /\ op.err # 0)
        => (op.res = "err" /\ op.code = op.err /\ inbuf = << >>)

\* C4 (Spec). Cursor completeness: when next() returns None the cursor has
\* yielded the rows 1..N of its portal, each once, in the backend's order.
CursorCompleteness ==
    (op.name = "next" /\ op.res = "none")
        => cursors[op.arg].got = [i \in 1..cursors[op.arg].srvN |-> i]

\* a cursor of row_limit 1 over MaxRows rows ran to its end
CursorCompletenessWitness ==
    /\ op.name = "next" /\ op.res = "none"
    /\ cursors[op.arg].row_limit = 1
    /\ cursors[op.arg].srvN = MaxRows
    /\ Len(cursors[op.arg].got) = MaxRows

\* the command of section 4.6's table
TableQuery(failing, commit, nested) ==
    CASE failing /\ ~nested -> "ROLLBACK"
      [] failing /\ nested -> "ROLLBACK TO sp"
      [] ~failing /\ commit /\ ~nested -> "COMMIT"
      [] ~failing /\ commit /\ nested -> "RELEASE sp"
      [] ~failing /\ ~commit /\ ~nested -> "ROLLBACK"
      [] ~failing /\ ~commit /\ nested -> "ROLLBACK TO sp"

\* C5 (SpecTx). Transaction exit policy: the end of a scope writes exactly
\* one Query, the command the table gives for the scope's commit flag, its
\* nesting and whether the task is failing.
ExitPolicy ==
    op.name = "drop_tx"
        => op.wrote = <<Query(TableQuery(op.arg.failing, op.arg.commit,
                                         op.arg.nested))>>

\* a nested scope set to commit ended while the task was failing
ExitPolicyWitness ==
    /\ op.name = "drop_tx" /\ op.arg.failing /\ op.arg.commit /\ op.arg.nested
    /\ op.wrote = <<Query("ROLLBACK TO sp")>>

\* C6 (SpecTx). Single-label savepoint safety: the ROLLBACK TO sp or
\* RELEASE sp a nested scope issues at its end, when the backend runs it,
\* acts on the savepoint this scope established at its entry.
OwnSavepoint ==
    (op.name = "drop_tx" /\ op.arg.nested /\ op.arg.ran)
        => op.arg.target = op.arg.depth

\* C7 (Spec). Parameter arity: a try_update or try_lazy_query with a number
\* of parameters other than the statement's fails and writes no frontend
\* message.
ParameterArity ==
    (op.name \in Executions /\ op.arg.nargs # op.arg.nparams)
        => (op.res = "fail" /\ op.wrote = << >> /\ task = "failing")

ParameterArityWitness ==
    /\ op.name = "try_lazy_query" /\ op.arg.nargs = 0 /\ op.arg.nparams = 1
    /\ op.res = "fail" /\ op.idle /\ inbuf = << >>

\* live statements have different names and live cursors different portal
\* names, and every name handed out is below its counter
NamesUnique ==
    /\ \A i, j \in Live(stmts) : i # j => stmts[i].name # stmts[j].name
    /\ \A i, j \in Live(cursors) : i # j => cursors[i].name # cursors[j].name
    /\ \A i \in Live(stmts) : stmts[i].name < next_stmt_id
    /\ \A c \in Live(cursors) :
         /\ cursors[c].name[1] = stmts[cursors[c].stmt].name
         /\ cursors[c].name[2] < stmts[cursors[c].stmt].next_portal_id

\* the counters only increase (a statement's while it is alive)
CountersIncrease ==
    /\ next_stmt_id' >= next_stmt_id
    /\ \A i \in Live(stmts) :
         stmts'[i].live => stmts'[i].next_portal_id >= stmts[i].next_portal_id

\* C8 (SpecNames). Name uniqueness: no two live statements share a name, no
\* two live portals share a name, and the names come from counters that only
\* increase.
NameUniqueness == []NamesUnique /\ [][CountersIncrease]_vars

\* two statements alive, one of them with two cursors alive
NameUniquenessWitness ==
    /\ Cardinality(Live(stmts)) = 2
    /\ \E c, d \in Live(cursors) : c # d /\ cursors[c].stmt = cursors[d].stmt

\* C9 (SpecTx). Nested rollback is local: every scope's commit flag is what
\* was last asked of this scope itself, so a nested scope on which
\* set_rollback was called ends with ROLLBACK TO sp, and a top-level scope
\* on which it was not called ends normally with COMMIT.
NestedRollbackLocal ==
    /\ \A i \in DOMAIN txs : txs[i].commit = (txs[i].asked # "rollback")
    /\ (op.name = "drop_tx" /\ ~op.arg.failing) =>
         /\ (op.arg.nested /\ op.arg.asked = "rollback")
              => op.wrote = <<Query("ROLLBACK TO sp")>>
         /\ (~op.arg.nested /\ op.arg.asked # "rollback")
              => op.wrote = <<Query("COMMIT")>>

\* a nested scope set to roll back has ended inside a top-level scope that
\* is still set to commit
NestedRollbackLocalWitness ==
    /\ op.name = "drop_tx" /\ op.arg.nested /\ op.arg.asked = "rollback"
    /\ ~op.arg.failing /\ op.arg.ran /\ task = "running"
    /\ Depth = 1 /\ txs[1].commit /\ txs[1].asked = "none"

ConnectErrors ==
    {"InvalidUrl", "MissingUser", "DnsError", "SocketError", "DbError",
     "MissingPassword", "UnsupportedAuthentication"}

\* C10 (SpecConnect). Open outcome: try_connect returns a connection or one
\* of the PostgresConnectError values, and an ErrorResponse it read from the
\* backend is returned as DbError.
OpenOutcome ==
    op.name = "try_connect"
        => /\ op.res \in {"ok"} \cup ConnectErrors
           /\ op.err # 0 => (op.res = "DbError" /\ op.code = op.err)

\* the PasswordMessages among the frontend messages written
RECURSIVE Passwords(_)
Passwords(ms) ==
    IF ms = << >> THEN << >>
    ELSE (IF Head(ms).t = "PasswordMessage" THEN <<Head(ms).password>> ELSE << >>)
         \o Passwords(Tail(ms))

\* C11 (SpecConnect). Authentication dispatch: on AuthenticationOk no
\* PasswordMessage is sent and authentication succeeds; on
\* AuthenticationCleartextPassword the password is sent, or MissingPassword
\* returned with nothing sent when there is none; on
\* AuthenticationMD5Password(salt) "md5" ++ hex(md5(hex(md5(password ++ user))
\* ++ salt)) is sent; Kerberos, SCM, GSS and SSPI return
\* UnsupportedAuthentication with no PasswordMessage; after a PasswordMessage
\* AuthenticationOk succeeds and ErrorResponse returns DbError.
AuthenticationDispatch ==
    op.name = "try_connect" =>
        LET a == op.arg.auth
            sent == Passwords(op.wrote)
        IN  /\ a.first.t = "AuthenticationOk" => (sent = << >> /\ a.st = "ok")
            /\ a.first.t = "AuthenticationCleartextPassword" =>
                 IF url.pass = << >>
                 THEN sent = << >> /\ a.st = "MissingPassword"
                      /\ op.res = "MissingPassword"
                 ELSE sent = <<url.pass>>
            /\ (a.first.t = "AuthenticationMD5Password" /\ url.pass # << >>) =>
                 sent = << <<"md5">> \o md5_hex(md5_hex(url.pass \o url.user)
                                                 \o Salt(a.first.v)) >>
            /\ a.first.t \in {"AuthenticationKerberosV5", "AuthenticationSCMCredential",
                              "AuthenticationGSS", "AuthenticationSSPI"} =>
                 (sent = << >> /\ a.st = "UnsupportedAuthentication"
                  /\ op.res = "UnsupportedAuthentication")
            /\ (sent # << >> /\ a.second.t = "AuthenticationOk") => a.st = "ok"
            /\ (sent # << >> /\ a.second.t = "ErrorResponse") =>
                 (a.st = "DbError" /\ op.res = "DbError" /\ op.code = a.second.v)

\* alice's password secret was asked for salted with salt 1, sent as
\* "md5" ++ hex(md5(hex(md5("secretalice")) ++ salt)), and refused
AuthenticationDispatchWitness ==
    /\ op.name = "try_connect"
    /\ op.arg.auth.first = AuthenticationMD5Password(1)
    /\ Passwords(op.wrote) =
         << <<"md5", "md5(", "md5(", "secret", "alice", ")", "salt", "1", ")">> >>
    /\ op.res = "DbError" /\ op.code = 2

\* the messages of ms that name the portal p (Bind, Execute, Close('P')) and
\* those that name the statement k (Parse, Describe, Bind, Close('S'))
IsClose(m, v) == m.t = "Close" /\ m.variant = v
OnPortal(ms, p) ==
    { i \in DOMAIN ms :
        \/ ms[i].t \in {"Bind", "Execute"} /\ ms[i].portal = p
        \/ IsClose(ms[i], "P") /\ ms[i].portal = p }
OnStatement(ms, k) ==
    { i \in DOMAIN ms :
        \/ ms[i].t \in {"Parse", "Describe"} /\ ms[i].name = k
        \/ ms[i].t = "Bind" /\ ms[i].statement = k
        \/ IsClose(ms[i], "S") /\ ms[i].name = k }
Closes(ms) == { i \in DOMAIN ms : ms[i].t = "Close" }

\* what holds after every teardown
TornDown ==
    /\ op.name = "drop_cursor" =>
         /\ op.wrote = <<CloseP(cursors[op.arg].name), Sync>>
         /\ stmts[cursors[op.arg].stmt].live
         /\ op.res = "ok" => op.rfq = 1
    /\ op.name = "drop_stmt" =>
         /\ op.wrote = <<CloseS(stmts[op.arg].name), Sync>>
         /\ \A c \in DOMAIN cursors : cursors[c].stmt = op.arg => ~cursors[c].live
         /\ op.res = "ok" => op.rfq = 1
    /\ op.name \notin {"drop_cursor", "drop_stmt"} => Closes(op.wrote) = {}
    /\ terminated = Terminates(op.wrote)
    /\ terminated = 1 =>
         /\ op.wrote[Len(op.wrote)] = Terminate
         /\ Live(stmts) = {} /\ Live(cursors) = {}
    /\ terminated <= 1

\* no step follows Terminate, and no step writes a message on a portal or a
\* statement that was closed
NothingAfterClose ==
    /\ terminated = 0
    /\ \A c \in DOMAIN cursors :
         ~cursors[c].live => OnPortal(op'.wrote, cursors[c].name) = {}
    /\ \A k \in DOMAIN stmts :
         ~stmts[k].live => OnStatement(op'.wrote, stmts[k].name) = {}

\* C12 (Spec). Resource teardown ordering: every cursor is closed by one
\* Close('P', its portal), Sync, after the last Execute on the portal and
\* before the Close('S') of its statement; every statement by one
\* Close('S', its name), Sync; each teardown reads through one
\* ReadyForQuery; Terminate is written once, last, when all are closed.
TeardownOrdering == []TornDown /\ [][NothingAfterClose]_vars

\* a statement and a cursor of it were made and closed, and the connection
\* was dropped
TeardownOrderingWitness ==
    /\ op.name = "drop_conn" /\ terminated = 1 /\ task = "running"
    /\ \E c \in DOMAIN cursors : ~cursors[c].live
    /\ \E k \in DOMAIN stmts : ~stmts[k].live

IsNotice(m) == m.t = "NoticeResponse"
IsAsync(m) == m.t \in {"NoticeResponse", "ParameterStatus"}
\* the notices among the messages ms, in order
NoticesOf(ms) ==
    [i \in DOMAIN SelectSeq(ms, IsNotice) |-> SelectSeq(ms, IsNotice)[i].v]

\* C13 (SpecNotices). Asynchronous message routing: read_message returns
\* neither a NoticeResponse nor a ParameterStatus; it returns the first other
\* message of the stream and leaves what follows it unread; every
\* NoticeResponse before it was given once, in arrival order, to the current
\* notice handler.
MessageRouting ==
    op.name = "read_message" =>
        LET before == op.arg
            read == Len(before) - Len(inbuf)
            skipped == IF op.res = EOF THEN read ELSE read - 1
        IN  /\ ~IsAsync(op.res)
            /\ inbuf = SubSeq(before, read + 1, Len(before))
            /\ op.res # EOF => before[read] = op.res
            /\ \A i \in 1..skipped : IsAsync(before[i])
            /\ op.ntc = Handled(notice_handler,
                                NoticesOf(SubSeq(before, 1, skipped)))

\* two notices and a ParameterStatus were read before the message returned,
\* and the caller's handler got the notices in order
MessageRoutingWitness ==
    /\ op.name = "read_message" /\ op.res = ReadyForQuery
    /\ op.arg = <<NoticeResponse(2), NoticeResponse(1), ReadyForQuery>>
    /\ op.ntc = <<[handler |-> 1, notice |-> 2], [handler |-> 1, notice |-> 1]>>

\* a step changes the handler only by set_notice_handler, which installs its
\* argument and returns the handler that was current; notices are given to
\* the handler current when they are read
HandlerStep ==
    /\ notice_handler' # notice_handler => op'.name = "set_notice_handler"
    /\ op'.name = "set_notice_handler" =>
         (notice_handler' = op'.arg /\ op'.res = notice_handler)
    /\ \A i \in DOMAIN op'.ntc : op'.ntc[i].handler = notice_handler'

\* C14 (SpecNotices). set_notice_handler(h) installs h and returns the
\* handler current before the call, the default handler at the first call;
\* notices read after the call go to h alone.
NoticeHandlerReplaced ==
    notice_handler = DefaultNoticeHandler /\ [][HandlerStep]_vars

\* the second of two calls returned the handler the first installed, with
\* messages still to read
NoticeHandlerReplacedWitness ==
    /\ op.name = "set_notice_handler" /\ op.arg = 2 /\ op.res = 1
    /\ notice_handler = 2 /\ inbuf # << >>

\* a tag as its space-separated tokens
RECURSIVE Tokens(_)
Tokens(tag) ==
    LET spaces == { i \in DOMAIN tag : tag[i] = " " }
    IN  IF spaces = {} THEN <<tag>>
        ELSE LET i == CHOOSE j \in spaces : \A k \in spaces : j <= k
             IN  <<SubSeq(tag, 1, i - 1)>> \o Tokens(SubSeq(tag, i + 1, Len(tag)))

\* the number a tag's last token writes, 0 when it writes none
MaxCount == 20
TagCount(tag) ==
    LET tok == Tokens(tag)[Len(Tokens(tag))]
        written == { n \in 0..MaxCount : Decimal(n) = tok }
    IN  IF written = {} THEN 0 ELSE CHOOSE n \in written : TRUE

UpdateOfSelectIsZero ==
    (op.name = "try_update" /\ op.res = "ok"
       /\ stmts[op.arg.stmt].query = "SELECT")
        => op.arg.val = 0

\* the zero-based indices of the columns named col
ColumnsNamed(descs, col) == { i \in 0..(Len(descs) - 1) : descs[i + 1] = col }

\* C17 (SpecColumns). Column lookup: find_col_named(c) is the smallest
\* zero-based index of a column named c, None when there is none; a row
\* indexed by a name reads the cell of that index, so the same cell as the
\* row indexed by i when column i alone has the name; a row indexed by a
\* name no column has fails.
ColumnLookup ==
    op.name = "index" =>
        LET descs == stmts[op.arg.stmt].result_desc
            i == op.arg.idx
            named == ColumnsNamed(descs, i.v)
        IN  /\ i.by = "str" =>
                 IF named = {}
                 THEN op.arg.col = << >> /\ op.res = "fail" /\ task = "failing"
                 ELSE /\ op.arg.col = <<CHOOSE k \in named : \A j \in named : k <= j>>
                      /\ op.arg.cell = <<op.arg.data[op.arg.col[1] + 1]>>
                      /\ \A k \in named :
                           named = {k} =>
                             op.arg.cell = row_index(descs, op.arg.data,
                                                     [by |-> "uint", v |-> k])
            /\ (i.by = "uint" /\ i.v < Len(descs)) =>
                 op.arg.cell = <<op.arg.data[i.v + 1]>>

\* a row of columns a, b, a indexed by "a" read its first cell, which
\* differs from its last
ColumnLookupWitness ==
    /\ op.name = "index" /\ op.arg.idx.by = "str" /\ op.arg.idx.v = "a"
    /\ stmts[op.arg.stmt].result_desc = <<"a", "b", "a">>
    /\ op.arg.data = <<10, 11, 11>> /\ op.arg.cell = <<10>> /\ op.arg.col = <<0>>

\* the messages of a kind among the messages written
Written(ms, t) == { i \in DOMAIN ms : ms[i].t = t }

\* a limited cursor's buffer holds at most row_limit rows; try_lazy_query
\* writes one Bind and one Execute, next at most one Execute and no Bind
Batched ==
    /\ \A c \in Live(cursors) :
         cursors[c].row_limit > 0 => Len(cursors[c].data) <= cursors[c].row_limit
    /\ (op.name = "try_lazy_query" /\ op.wrote # << >>) =>
         (Cardinality(Written(op.wrote, "Bind")) = 1
          /\ Cardinality(Written(op.wrote, "Execute")) = 1)
    /\ op.name = "next" =>
         (Written(op.wrote, "Bind") = {}
          /\ Cardinality(Written(op.wrote, "Execute")) <= 1)

\* next writes Execute(portal, row_limit), Sync only on an empty buffer with
\* more_rows set, and the batch it reads is the next row_limit rows of the
\* portal, or the rows that are left
FetchStep ==
    (op'.name = "next" /\ op'.wrote # << >>) =>
        LET cur == cursors[op'.arg]
            left == cur.srvN - cur.srvPos
        IN  /\ cur.data = << >> /\ cur.more_rows /\ cur.row_limit > 0
            /\ op'.wrote = <<Execute(cur.name, cur.row_limit), Sync>>
            /\ op'.res \in {"row", "none"} =>
                 cursors'[op'.arg].srvPos - cur.srvPos
                   = (IF left < cur.row_limit THEN left ELSE cur.row_limit)

\* C18 (Spec). Lazy fetch batching: a cursor of row_limit L > 0 never
\* buffers more than L rows; a follow-up Execute(portal, L), Sync is written
\* only when the buffer is empty and more_rows is set; a query causes one
\* Bind and one Execute for each batch of L rows.
LazyBatching == []Batched /\ [][FetchStep]_vars

\* a cursor of row_limit MaxLimit fetched the last row of its portal by a
\* follow-up Execute
LazyBatchingWitness ==
    /\ op.name = "next" /\ op.res = "row" /\ op.wrote # << >>
    /\ cursors[op.arg].row_limit = MaxLimit
    /\ cursors[op.arg].srvN = MaxRows /\ cursors[op.arg].srvPos = MaxRows
    /\ ~cursors[op.arg].more_rows

\* a cursor of row_limit 0 that its caller holds has all the rows of its
\* portal and more_rows cleared; it was made by one Bind, Execute(portal, 0),
\* Sync
AllRowsAtOnce ==
    /\ task = "running" =>
         \A c \in Live(cursors) :
           cursors[c].row_limit = 0 =>
             /\ ~cursors[c].more_rows
             /\ cursors[c].srvPos = cursors[c].srvN
             /\ cursors[c].got \o cursors[c].data = [i \in 1..cursors[c].srvN |-> i]
    /\ (op.name = "try_lazy_query" /\ op.res = "ok" /\ Live(cursors) # {}) =>
         LET c == Len(cursors)
         IN  cursors[c].row_limit = 0 =>
               op.wrote = <<Bind(cursors[c].name, stmts[cursors[c].stmt].name),
                            Execute(cursors[c].name, 0), Sync>>

\* next on a cursor of row_limit 0 writes nothing
NoFurtherExecute ==
    (op'.name = "next" /\ cursors[op'.arg].row_limit = 0) => op'.wrote = << >>

\* C19 (Spec). Row limit 0: a cursor made with row_limit 0 has all its rows
\* from the one Execute written with its Bind, more_rows is false once the
\* caller has it, and no call of next() writes another Execute for its
\* portal.
RowLimitZero == []AllRowsAtOnce /\ [][NoFurtherExecute]_vars

\* a cursor of row_limit 0 over MaxRows rows gave them all and then None,
\* with nothing written
RowLimitZeroWitness ==
    /\ op.name = "next" /\ op.res = "none" /\ op.wrote = << >>
    /\ cursors[op.arg].row_limit = 0 /\ cursors[op.arg].srvN = MaxRows
    /\ cursors[op.arg].got = [i \in 1..MaxRows |-> i] /\ task = "running"

\* the StartupMessage try_connect wrote, when it opened a socket
HasParameter(ps, p) == \E i \in DOMAIN ps : ps[i] = p
Named(ps, k) == { i \in DOMAIN ps : ps[i][1] = k }
StartupWritten ==
    /\ op.name = "try_connect"
    /\ op.res \notin {"InvalidUrl", "MissingUser", "DnsError", "SocketError"}

\* C20 (SpecConnect), as stated. Startup parameters: the StartupMessage is
\* the first message written and holds every query parameter of the URL,
\* client_encoding=UTF8, TimeZone=GMT and user=<user>, and a database
\* parameter if and only if the URL's path is not empty.
StartupDatabaseIffPath ==
    StartupWritten =>
        /\ op.wrote # << >> /\ op.wrote[1].t = "StartupMessage"
        /\ LET ps == op.wrote[1].parameters
           IN  /\ \A i \in DOMAIN url.args : HasParameter(ps, url.args[i])
               /\ HasParameter(ps, <<"client_encoding", "UTF8">>)
               /\ HasParameter(ps, <<"TimeZone", "GMT">>)
               /\ HasParameter(ps, <<"user", url.user[1]>>)
               /\ (Named(ps, "database") # {}) <=> (url.path # << >>)

\* C20 (SpecConnect), amended. The StartupMessage is the first message
\* written, and the only one; its parameters are the query parameters of the
\* URL in order, then client_encoding=UTF8, TimeZone=GMT and user=<user>,
\* then database=<path> if and only if the URL's path is not empty.
StartupParameters ==
    StartupWritten =>
        /\ op.wrote # << >> /\ Written(op.wrote, "StartupMessage") = {1}
        /\ LET ps == op.wrote[1].parameters
               n == Len(url.args)
           IN  /\ SubSeq(ps, 1, n) = url.args
               /\ SubSeq(ps, n + 1, n + 3) =
                    << <<"client_encoding", "UTF8">>, <<"TimeZone", "GMT">>,
                       <<"user", url.user[1]>> >>
               /\ Len(ps) = n + 3 + (IF url.path # << >> THEN 1 ELSE 0)
               /\ url.path # << >> => ps[n + 4] = <<"database", url.path[1]>>

\* a URL with a path and a query parameter was connected with
StartupParametersWitness ==
    /\ op.name = "try_connect" /\ op.res = "ok"
    /\ url.path = <<"db">> /\ url.args = << <<"application_name", "app">> >>
    /\ op.wrote[1] = StartupMessage(<< <<"application_name", "app">>,
                                       <<"client_encoding", "UTF8">>,
                                       <<"TimeZone", "GMT">>, <<"user", "alice">>,
                                       <<"database", "db">> >>)

\* the answer of a backend that prepared the statement
Prepared(reply) ==
    /\ Len(reply) = 4
    /\ reply[1] = ParseComplete /\ reply[2].t = "ParameterDescription"
    /\ reply[3].t \in {"RowDescription", "NoData"} /\ reply[4] = ReadyForQuery

\* C21 (SpecPrepare). Preparation exchange: try_prepare writes
\* Parse(stmt_name), Describe('S', stmt_name), Sync, in that order; answered
\* by ParseComplete, ParameterDescription(t1..tn), RowDescription(d1..dm) or
\* NoData, ReadyForQuery it returns a statement of that name with the types
\* of t1..tn as its parameter types, in that order, the columns d1..dm in
\* that order as its result description (none for NoData), and its portal
\* counter at 0.
PreparationExchange ==
    op.name = "try_prepare" =>
        /\ op.wrote = <<Parse(op.arg.name), Describe(op.arg.name), Sync>>
        /\ (op.idle /\ Prepared(op.arg.reply)) =>
             LET types == op.arg.reply[2].v
                 described == op.arg.reply[3]
                 stmt == stmts[Len(stmts)]
             IN  /\ op.res = "ok" /\ stmt.live /\ stmt.name = op.arg.name
                 /\ Len(stmt.param_types) = Len(types)
                 /\ \A i \in DOMAIN types : stmt.param_types[i] = from_oid(types[i])
                 /\ stmt.result_desc
                      = (IF described.t = "NoData" THEN << >> ELSE described.v)
                 /\ stmt.next_portal_id = 0

\* an UPDATE of a text and an int4 parameter was prepared, and a SELECT of
\* the columns a, b is alive
PreparationExchangeWitness ==
    /\ op.name = "try_prepare" /\ op.res = "ok" /\ op.arg.query = "UPDATE"
    /\ op.arg.reply[2] = ParameterDescription(<<25, 23>>)
    /\ op.arg.reply[3] = NoData
    /\ stmts[Len(stmts)].param_types = <<from_oid(25), from_oid(23)>>
    /\ \E s \in Live(stmts) : stmts[s].result_desc = <<"a", "b">>

\* the answer of a backend that refused the statement
Refused(reply) ==
    /\ Len(reply) = 2
    /\ reply[1].t = "ErrorResponse" /\ reply[2] = ReadyForQuery

\* the statement handles made under the name k
HandlesNamed(k) == { s \in DOMAIN stmts : stmts[s].name = k }

\* a refused try_prepare has read the ErrorResponse and the ReadyForQuery
\* after it and nothing else, returned the error, made no statement handle,
\* and moved the counter beyond the name it used
RefusedPreparation ==
    (op.name = "try_prepare" /\ op.idle /\ Refused(op.arg.reply)) =>
        /\ op.res = "err" /\ op.code = op.arg.reply[1].v
        /\ op.rfq = 1 /\ inbuf = << >>
        /\ HandlesNamed(op.arg.name) = {}
        /\ next_stmt_id > op.arg.name

\* a step writes Close('S') only for the name of a live statement handle,
\* and a try_prepare uses a name at or beyond the counter
FreshNames ==
    /\ \A i \in DOMAIN op'.wrote :
         IsClose(op'.wrote[i], "S") =>
           \E s \in Live(stmts) : stmts[s].name = op'.wrote[i].name
    /\ op'.name = "try_prepare" => op'.arg.name >= next_stmt_id

\* C22 (SpecPrepare). Failed preparation: when the backend answers Parse
\* with ErrorResponse, try_prepare reads through the ReadyForQuery that
\* follows and no further, returns Err(DbError) and no statement handle; no
\* Close('S') is ever written for the name it allocated, and the counter has
\* advanced, so that no later try_prepare uses the name again.
FailedPreparation ==
    /\ []RefusedPreparation
    /\ []((\A s \in DOMAIN stmts : stmts[s].name < next_stmt_id)
           /\ (op.name = "try_prepare" => op.arg.name < next_stmt_id))
    /\ [][FreshNames]_vars

\* a prepare was refused with code 2 under the name 0, the next one was
\* given the name 1, and its statement has been closed
FailedPreparationWitness ==
    /\ op.name = "drop_stmt" /\ op.wrote = <<CloseS(1), Sync>>
    /\ next_stmt_id = 2 /\ Len(stmts) = 1 /\ HandlesNamed(0) = {}

\* the commands that open a scope and that end one
EntryLiteral(depth) == IF depth = 0 THEN "BEGIN" ELSE "SAVEPOINT sp"
ExitLiterals(depth) ==
    IF depth = 1 THEN {"COMMIT", "ROLLBACK"} ELSE {"RELEASE sp", "ROLLBACK TO sp"}

\* the statements and cursors made in the scope of depth d that are not
\* closed yet
OpenIn(d) ==
    { <<"S", s>> : s \in { i \in Live(stmts) : stmts[i].depth = d } }
    \cup { <<"P", c>> : c \in { i \in Live(cursors) : cursors[i].depth = d } }

\* every statement and cursor not closed yet was made in a scope that is
\* still open, a cursor not outside the scope of its statement; and a scope
\* was opened by a command answered through ReadyForQuery
Bracketed ==
    /\ \A d \in 1..MaxDepth : d > Depth => OpenIn(d) = {}
    /\ \A c \in Live(cursors) : cursors[c].depth >= stmts[cursors[c].stmt].depth
    /\ (op.name = "in_transaction" /\ op.res = "ok") =>
         (op.rfq = 1 /\ inbuf = << >> /\ Depth = op.arg + 1)

\* A scope opens by an in_transaction that wrote its entry command alone and
\* returned; statements and cursors are made in the innermost open scope;
\* a step writes on a statement or a portal only of an open scope; a scope
\* ends by its exit command alone, the innermost first, when all that was
\* made in it is closed.
BracketStep ==
    /\ Len(txs') > Len(txs) =>
         /\ Len(txs') = Depth + 1
         /\ op'.name = "in_transaction" /\ op'.res = "ok"
         /\ op'.wrote = <<Query(EntryLiteral(Depth))>>
    /\ (op'.name = "in_transaction" /\ op'.res # "ok") => txs' = txs
    /\ \A s \in DOMAIN stmts' \ DOMAIN stmts :
         stmts'[s].depth = Depth /\ txs' = txs
    /\ \A c \in DOMAIN cursors' \ DOMAIN cursors :
         cursors'[c].depth = Depth /\ txs' = txs
    /\ \A s \in DOMAIN stmts' :
         OnStatement(op'.wrote, stmts'[s].name) # {} => stmts'[s].depth <= Depth
    /\ \A c \in DOMAIN cursors' :
         OnPortal(op'.wrote, cursors'[c].name) # {} => cursors'[c].depth <= Depth
    /\ Len(txs') < Len(txs) =>
         /\ Len(txs') = Depth - 1
         /\ op'.name = "drop_tx"
         /\ \E q \in ExitLiterals(Depth) : op'.wrote = <<Query(q)>>
         /\ OpenIn(Depth) = {}
    /\ op'.name = "drop_tx" => Len(txs') < Len(txs)

OneShotUpdate ==
    op.name = "conn_try_update" =>
        LET k == op.arg.name
            prepare == <<Parse(k), Describe(k), Sync>>
            bind == <<Bind(<< >>, k), Execute(<< >>, 0), Sync>>
            close == <<CloseS(k), Sync>>
        IN  /\ SubSeq(op.wrote, 1, 3) = prepare
            /\ ~op.arg.made =>
                 /\ op.wrote = prepare
                 /\ HandlesNamed(k) = {}
                 /\ op.err # 0 => (op.res = "err" /\ op.code = op.err)
            /\ (op.arg.made /\ Returned) =>
                 /\ op.wrote = prepare \o bind \o close
                 /\ \A s \in HandlesNamed(k) : ~stmts[s].live
                 /\ (op.idle /\ op.res = "ok") => op.err = 0
                 /\ (op.idle /\ op.res = "err") => op.code = op.err
            /\ Closes(op.wrote) # {} => op.arg.made
            /\ Written(op.wrote, "Bind") \subseteq {4}

\* an update whose execution was refused with code 2 returned the error
\* after it closed its statement
OneShotUpdateWitness ==
    /\ op.name = "conn_try_update" /\ op.res = "err" /\ op.code = 2
    /\ op.arg.made /\ op.idle /\ inbuf = << >> /\ op.rfq = 3
    /\ op.wrote[Len(op.wrote) - 1] = CloseS(op.arg.name)

\* the scopes open before and after a step
Kept == DOMAIN txs \cap DOMAIN txs'

\* A new scope's flag is true; will_commit returns the flag and leaves every
\* flag as it is; set_commit makes the flag of its scope true and
\* set_rollback false, and nothing else changes a flag; the end of a scope
\* reads the flag as the last call left it and writes the command the flag
\* decides: to commit or release when it is true and the task is not
\* failing, to roll back when it is false.
FlagStep ==
    /\ Len(txs') > Len(txs) => txs'[Len(txs')].commit
    /\ op'.name = "will_commit" =>
         (op'.arg.commit = txs[op'.arg.tx].commit /\ txs' = txs)
    /\ op'.name = "set_commit" =>
         /\ txs'[op'.arg].commit
         /\ \A i \in Kept \ {op'.arg} : txs'[i].commit = txs[i].commit
    /\ op'.name = "set_rollback" =>
         /\ ~txs'[op'.arg].commit
         /\ \A i \in Kept \ {op'.arg} : txs'[i].commit = txs[i].commit
    /\ op'.name \notin {"set_commit", "set_rollback"} =>
         \A i \in Kept : txs'[i].commit = txs[i].commit
    /\ op'.name = "drop_tx" =>
         LET flag == txs[Depth].commit
             nested == txs[Depth].nested
         IN  /\ op'.arg.commit = flag
             /\ (flag /\ task = "running") =>
                  op'.wrote = <<Query(IF nested THEN "RELEASE sp" ELSE "COMMIT")>>
             /\ ~flag =>
                  op'.wrote = <<Query(IF nested THEN "ROLLBACK TO sp" ELSE "ROLLBACK")>>

\* C25 (SpecTx). Commit flag operations: a new scope has commit flag true;
\* will_commit returns the current flag and leaves it unchanged; after any
\* calls of set_commit and set_rollback the flag is true if the last was
\* set_commit and false if it was set_rollback; the scope's exit command is
\* decided by that value.
CommitFlag ==
    /\ [](\A i \in DOMAIN txs :
            /\ txs[i].asked = "commit" => txs[i].commit
            /\ txs[i].asked = "rollback" => ~txs[i].commit
            /\ txs[i].asked = "none" => txs[i].commit)
    /\ [][FlagStep]_vars

\* will_commit returned false on a nested scope set to roll back, inside a
\* scope set to commit
CommitFlagWitness ==
    /\ op.name = "will_commit" /\ ~op.arg.commit /\ op.arg.tx = 2
    /\ txs[2].asked = "rollback" /\ ~txs[2].commit
    /\ txs[1].asked = "commit" /\ txs[1].commit

\* C26 (SpecCell). Move-cell exclusivity: no operation of the one caller
\* takes the inner connection out of an empty cell or puts it back into a
\* full one, and whenever the last operation has returned or failed (anything
\* but still waiting for the backend) the cell holds the inner connection.
MoveCellExclusivity ==
    /\ cell # "misused"
    /\ task \in {"running", "failing"} => cell = "full"

\* an operation failed inside its access to the connection, and a statement
\* is still to be dropped while the task unwinds
MoveCellExclusivityWitness ==
    /\ op.name = "in_transaction"
    /\ op.res = "fail"
    /\ task = "failing"
    /\ Live(stmts) # {}
    /\ cell = "full"
    /\ teardown = NoTeardown

\* C27 (SpecConnect). Socket establishment: InvalidUrl and MissingUser come
\* back before any resolution or connection attempt; otherwise the host is
\* resolved, DnsError comes back exactly when the resolution fails, and when
\* it succeeds the addresses are tried in the order of the answer, each on the
\* port of the URL (5432 when it has none), up to and including the first
\* that connects and no further; SocketError comes back exactly when no
\* address connects.
Connects(addrs) == { i \in DOMAIN addrs : addrs[i] }
SocketEstablishment ==
    op.name = "try_connect" =>
        LET a == op.arg
            n == Len(a.tried)
            port == IF url.port = 0 THEN 5432 ELSE url.port
        IN  /\ op.res \in {"InvalidUrl", "MissingUser"} =>
                  ~a.looked_up /\ a.tried = << >>
            /\ op.res \notin {"InvalidUrl", "MissingUser"} => a.looked_up
            /\ a.looked_up =>
                  /\ op.res = "DnsError" <=> ~net.resolves
                  /\ ~net.resolves => a.tried = << >>
                  /\ net.resolves =>
                        /\ n <= Len(net.addrs)
                        /\ \A i \in 1..n : a.tried[i] = [ip |-> i, port |-> port]
                        /\ op.res = "SocketError" <=> Connects(net.addrs) = {}
                        /\ IF Connects(net.addrs) = {}
                           THEN n = Len(net.addrs) /\ a.socket = 0
                           ELSE /\ a.socket = n
                                /\ n \in Connects(net.addrs)
                                /\ \A i \in Connects(net.addrs) : n <= i

\* a connection made on the first of two addresses that both accept, on the
\* default port
SocketEstablishmentWitness ==
    /\ op.name = "try_connect"
    /\ op.res = "ok"
    /\ url.port = 0
    /\ net.resolves
    /\ net.addrs = <<TRUE, TRUE>>
    /\ op.arg.tried = <<[ip |-> 1, port |-> 5432]>>

\* C28 (SpecTeardown). Teardown terminates: the Drop of a statement or of a
\* cursor that has written Close and Sync eventually completes, both on a
\* working stream whose backend eventually answers with ReadyForQuery and on
\* a stream that was already broken, where every write and read fails with
\* an I/O error; and the Drop of a connection completes in the step that
\* attempts Terminate, leaving the task as it was.
Tearing(stream) == teardown.st = "reading" /\ teardown.stream = stream
TeardownAnswered == Tearing("up") ~> teardown.st = "idle"
TeardownBroken == Tearing("broken") ~> teardown.st = "idle"
ConnectionTeardown ==
    [][op'.name = "drop_conn" /\ op.name # "drop_conn" =>
         /\ Terminates(op'.wrote) = 1
         /\ terminated' = terminated + 1
         /\ task' = task]_vars
TeardownTerminates == TeardownAnswered /\ TeardownBroken /\ ConnectionTeardown

\* C29 (Spec). Exhausted cursor is stable: when next has returned None on a
\* cursor, more_rows is false and the buffer is empty; a cursor in that state
\* stays in it for as long as it lives; and a next on a cursor in that state
\* returns None and writes no frontend message.
Exhausted(c) ==
    c \in Live(cursors) /\ cursors[c].data = << >> /\ ~cursors[c].more_rows
ReturnedNone == op.name = "next" /\ op.res = "none"
ExhaustedStep ==
    \A c \in DOMAIN cursors :
        Exhausted(c) =>
            /\ Exhausted(c)' \/ c \notin Live(cursors')
            /\ (op' # op /\ op'.name = "next" /\ op'.arg = c) =>
                  op'.res = "none" /\ op'.wrote = << >>
ExhaustedStable ==
    /\ [](ReturnedNone => Exhausted(op.arg))
    /\ [][ExhaustedStep]_vars

\* a next that returned None right after a next on the same cursor had
\* returned None, on a cursor that had given a row before
ExhaustedStableWitness ==
    /\ ReturnedNone
    /\ op.again
    /\ op.wrote = << >>
    /\ cursors[op.arg].got # << >>

====
